---- MODULE Spec2Model ----
(***************************************************************************)
(* A model of the hly chapter pipeline: numeral parsing, text cleaning,    *)
(* chapter-marker scanning, index generation and chapter extraction.       *)
(*                                                                         *)
(* Text is modelled character by character.  A character is a string that *)
(* names it: Chinese characters carry their pinyin ("di" is the ordinal    *)
(* prefix of a chapter marker, "hui" and "zhang" the two chapter units,    *)
(* "ling" .. "jiu", "shi", "bai" the Chinese numerals; "shi1" is the shi   *)
(* of que-shi, "missing", "fw(" "fw)" "fw." the full-width brackets and    *)
(* full stop), ASCII characters stand for themselves.  A text is a         *)
(* sequence of characters; a corpus is a sequence of lines, each line a    *)
(* text without its line terminator.                                       *)
(*                                                                         *)
(* An operator that reads a text many times takes it through a bound       *)
(* variable, CHOOSE r \in {F(t) : t \in {text}} : TRUE, which is F(text)    *)
(* with text evaluated once.                                               *)
(***************************************************************************)
EXTENDS Integers, Sequences, FiniteSets, TLC

VARIABLES
    token,          \* numeral parser: the token handed to chinese_to_arabic
    parsed,         \* result of analyze_chapters.chinese_to_arabic
    parsedTable,    \* result of process_chapters_reusable.chinese_to_arabic
    npc,            \* numeral parser: "idle" | "start" | "done"
    cleanIn,        \* clean_text: content read from input_file
    cleanOut,       \* clean_text: content written to output_file (None before)
    cleanPrev,      \* clean_text: output of the previous run (None before)
    cleanRuns,      \* clean_text: number of runs made so far
    cpc,            \* clean_text: "idle" | "start" | "written"
    corpus,         \* hl.txt: the lines of the corpus
    ppc,            \* pipeline position: "idle" | "scan" | "found" |
                    \*   "no_chapters" | "configured" | "extract" | "done"
    lineNo,         \* find_chapters: the line enumerate() yields next
    chapters,       \* find_chapters: the marker list
    stats,          \* analyze_chapters: the statistics (None before)
    config,         \* chapters_config.json (None while not written)
    recIdx,         \* extract_all_chapters: position in config['chapters']
    extracted,      \* extract_all_chapters: last extract_chapter_content result
    files,          \* chapters_raw: chapter number -> file content
    extracted_count,\* extract_all_chapters: files written from records
    failed,         \* extract_all_chapters: numbers reported as not extracted
    raw,            \* process_chapter_sop: the chapters_raw file (None: absent)
    chapterNum,    \* process_chapter_sop: the chapter asked for
    rpc,            \* reflow position: "idle" | "start" | "filter" |
                    \*   "accumulate" | "done"
    rawLines,       \* format_chapter_content_sop: lines
    lineIdx,        \* format_chapter_content_sop: i of the line loop
    filtered,       \* format_chapter_content_sop: filtered
    start_processing,   \* format_chapter_content_sop: start_processing
    skip_next_chapter,  \* format_chapter_content_sop: skip_next_chapter
    parts,          \* format_chapter_content_sop: parts
    partIdx,        \* format_chapter_content_sop: i of the while loop, from 1
    current_para,   \* format_chapter_content_sop: current_para
    paragraphs,     \* format_chapter_content_sop: paragraphs
    formatted,      \* format_chapter_content_sop: the value returned (or None)
    resultFile,     \* result: the Markdown file of the chapter (or None)
    sopReturn,      \* process_chapter_sop: the value returned (or None)
    chapterDir,     \* chapters: file name -> content (None: not readable)
    epc,            \* create_epub position: "idle" | "start" | "loop" |
                    \*   "done"
    chapter_files,  \* create_epub: chapter_files
    fileIdx,        \* create_epub: files of chapter_files handled so far
    book,           \* create_epub: the chapters added to the book, in order
    epubReturn,     \* create_epub: the value returned (or None)
    indexFile,      \* chapters_config.json as the ledger scripts load it:
                    \*   the numbers of its records (None: not loadable)
    ledger,         \* progress.json: key -> entry (None: no file)
    lpc,            \* ledger position: "idle" | "start" | "ready" |
                    \*   "batch" | "done" | "aborted"
    runner,         \* the batch loop running: "none" | "range" | "batch"
    batchStart,     \* the start of the batch range
    batchNum,       \* the loop variable of the batch loop
    batchEnd,       \* the end of the batch range
    missing_chapters,   \* process_batch: missing_chapters
    rawKind,        \* chapters_raw: chapter number -> kind of its raw file
    resultWritable, \* whether files can be written to the result directory
    counts,         \* the counters of the batch loop
    attempted,      \* the chapters the batch loop has called its worker for
    written,        \* result: the chapters whose Markdown file was written
    worker,         \* the process_chapter invocations: process -> its
                    \*   position, arguments, loaded progress and result
    overlapped,     \* whether two invocations have run at the same time
    nextCount       \* the 'next' commands that have selected a chapter

numeralVars == <<token, parsed, parsedTable, npc>>

cleanVars == <<cleanIn, cleanOut, cleanPrev, cleanRuns, cpc>>

pipeVars ==
    <<corpus, ppc, lineNo, chapters, stats, config, recIdx, extracted, files,
      extracted_count, failed>>

reflowVars ==
    <<raw, chapterNum, rpc, rawLines, lineIdx, filtered, start_processing,
      skip_next_chapter, parts, partIdx, current_para, paragraphs, formatted,
      resultFile, sopReturn>>

epubVars ==
    <<chapterDir, epc, chapter_files, fileIdx, book, epubReturn>>

ledgerVars ==
    <<indexFile, ledger, lpc, runner, batchStart, batchNum, batchEnd,
      missing_chapters, rawKind, resultWritable, counts, attempted, written>>

callVars == <<worker, overlapped, nextCount>>

vars ==
    <<numeralVars, cleanVars, pipeVars, reflowVars, epubVars, ledgerVars,
      callVars>>

\* what an action of one component leaves alone: the other components
NumeralFrame ==
    UNCHANGED <<cleanVars, pipeVars, reflowVars, epubVars, ledgerVars,
                callVars>>

CleanFrame ==
    UNCHANGED <<numeralVars, pipeVars, reflowVars, epubVars, ledgerVars,
                callVars>>

PipeFrame ==
    UNCHANGED <<numeralVars, cleanVars, reflowVars, epubVars, ledgerVars,
                callVars>>

ReflowFrame ==
    UNCHANGED <<numeralVars, cleanVars, pipeVars, epubVars, ledgerVars,
                callVars>>

EpubFrame ==
    UNCHANGED <<numeralVars, cleanVars, pipeVars, reflowVars, ledgerVars,
                callVars>>

LedgerFrame ==
    UNCHANGED <<numeralVars, cleanVars, pipeVars, reflowVars, epubVars,
                callVars>>

CallFrame ==
    UNCHANGED <<numeralVars, cleanVars, pipeVars, reflowVars, epubVars>>

----------------------------------------------------------------------------
(* Python's None and a present value, as sequences of length 0 and 1.      *)

None == <<>>

Some(v) == <<v>>

IsSome(o) == Len(o) = 1

ValueOf(o) == o[1]

Min(a, b) == IF a < b THEN a ELSE b

Max(a, b) == IF a > b THEN a ELSE b

----------------------------------------------------------------------------
(* Character classes.                                                      *)

ArabicDigits == <<"0", "1", "2", "3", "4", "5", "6", "7", "8", "9">>

Digit == {ArabicDigits[k] : k \in 1..10}

DigitValue(c) == (CHOOSE k \in 1..10 : ArabicDigits[k] = c) - 1

\* the character class [yi er san si wu liu qi ba jiu shi bai] of the patterns
ChineseNumeralClass ==
    {"yi", "er", "san", "si", "wu", "liu", "qi", "ba", "jiu", "shi", "bai"}

\* every character the numeral tables know
ChineseNumeralChars == ChineseNumeralClass \cup {"ling"}

----------------------------------------------------------------------------
(* analyze_chapters.py: chinese_to_arabic                                  *)

char_map ==
    ("yi" :> 1) @@ ("er" :> 2) @@ ("san" :> 3) @@ ("si" :> 4) @@ ("wu" :> 5)
    @@ ("liu" :> 6) @@ ("qi" :> 7) @@ ("ba" :> 8) @@ ("jiu" :> 9)
    @@ ("shi" :> 10) @@ ("ling" :> 0) @@ ("bai" :> 100)

\* char_map.get(c, 0)
char_map_get0(c) == IF c \in DOMAIN char_map THEN char_map[c] ELSE 0

\* a slip of the "shi X" branch: the ten is not added
chinese_to_arabic_noTen(chinese_num) ==
    IF Len(chinese_num) = 0 THEN None
    ELSE IF chinese_num = <<"yi", "bai">> THEN Some(100)
    ELSE IF chinese_num[1] = "shi" /\ Len(chinese_num) = 2
         THEN Some(char_map_get0(chinese_num[2]))
    ELSE IF chinese_num[Len(chinese_num)] = "shi" /\ Len(chinese_num) = 2
         THEN Some(char_map_get0(chinese_num[1]) * 10)
    ELSE IF (\E k \in 1..Len(chinese_num) : chinese_num[k] = "shi")
            /\ Len(chinese_num) = 3
         THEN Some(char_map_get0(chinese_num[1]) * 10
                   + char_map_get0(chinese_num[3]))
    ELSE IF Len(chinese_num) = 1
         THEN (IF chinese_num[1] \in DOMAIN char_map
               THEN Some(char_map[chinese_num[1]]) ELSE None)
    ELSE None

chinese_to_arabic(chinese_num) ==
    IF Len(chinese_num) = 0 THEN None
    ELSE IF chinese_num = <<"yi", "bai">> THEN Some(100)
    ELSE IF chinese_num[1] = "shi" /\ Len(chinese_num) = 2
         THEN Some(10 + char_map_get0(chinese_num[2]))
    ELSE IF chinese_num[Len(chinese_num)] = "shi" /\ Len(chinese_num) = 2
         THEN Some(char_map_get0(chinese_num[1]) * 10)
    ELSE IF (\E k \in 1..Len(chinese_num) : chinese_num[k] = "shi")
            /\ Len(chinese_num) = 3
         THEN Some(char_map_get0(chinese_num[1]) * 10
                   + char_map_get0(chinese_num[3]))
    ELSE IF Len(chinese_num) = 1
         THEN (IF chinese_num[1] \in DOMAIN char_map
               THEN Some(char_map[chinese_num[1]]) ELSE None)
    ELSE None

----------------------------------------------------------------------------
(* md/process_chapters_reusable.py: CHINESE_DIGITS and chinese_to_arabic   *)

CHINESE_DIGITS ==
    (<<"ling">> :> 0) @@ (<<"yi">> :> 1) @@ (<<"er">> :> 2)
    @@ (<<"san">> :> 3) @@ (<<"si">> :> 4) @@ (<<"wu">> :> 5)
    @@ (<<"liu">> :> 6) @@ (<<"qi">> :> 7) @@ (<<"ba">> :> 8)
    @@ (<<"jiu">> :> 9) @@ (<<"shi">> :> 10) @@ (<<"shi", "yi">> :> 11)
    @@ (<<"shi", "er">> :> 12) @@ (<<"shi", "san">> :> 13) @@ (<<"shi", "si">> :> 14)
    @@ (<<"shi", "wu">> :> 15) @@ (<<"shi", "liu">> :> 16) @@ (<<"shi", "qi">> :> 17)
    @@ (<<"shi", "ba">> :> 18) @@ (<<"shi", "jiu">> :> 19) @@ (<<"er", "shi">> :> 20)
    @@ (<<"er", "shi", "yi">> :> 21) @@ (<<"er", "shi", "er">> :> 22) @@ (<<"er", "shi", "san">> :> 23)
    @@ (<<"er", "shi", "si">> :> 24) @@ (<<"er", "shi", "wu">> :> 25) @@ (<<"er", "shi", "liu">> :> 26)
    @@ (<<"er", "shi", "qi">> :> 27) @@ (<<"er", "shi", "ba">> :> 28) @@ (<<"er", "shi", "jiu">> :> 29)
    @@ (<<"san", "shi">> :> 30) @@ (<<"san", "shi", "yi">> :> 31) @@ (<<"san", "shi", "er">> :> 32)
    @@ (<<"san", "shi", "san">> :> 33) @@ (<<"san", "shi", "si">> :> 34) @@ (<<"san", "shi", "wu">> :> 35)
    @@ (<<"san", "shi", "liu">> :> 36) @@ (<<"san", "shi", "qi">> :> 37) @@ (<<"san", "shi", "ba">> :> 38)
    @@ (<<"san", "shi", "jiu">> :> 39) @@ (<<"si", "shi">> :> 40) @@ (<<"si", "shi", "yi">> :> 41)
    @@ (<<"si", "shi", "er">> :> 42) @@ (<<"si", "shi", "san">> :> 43) @@ (<<"si", "shi", "si">> :> 44)
    @@ (<<"si", "shi", "wu">> :> 45) @@ (<<"si", "shi", "liu">> :> 46) @@ (<<"si", "shi", "qi">> :> 47)
    @@ (<<"si", "shi", "ba">> :> 48) @@ (<<"si", "shi", "jiu">> :> 49) @@ (<<"wu", "shi">> :> 50)
    @@ (<<"wu", "shi", "yi">> :> 51) @@ (<<"wu", "shi", "er">> :> 52) @@ (<<"wu", "shi", "san">> :> 53)
    @@ (<<"wu", "shi", "si">> :> 54) @@ (<<"wu", "shi", "wu">> :> 55) @@ (<<"wu", "shi", "liu">> :> 56)
    @@ (<<"wu", "shi", "qi">> :> 57) @@ (<<"wu", "shi", "ba">> :> 58) @@ (<<"wu", "shi", "jiu">> :> 59)
    @@ (<<"liu", "shi">> :> 60) @@ (<<"liu", "shi", "yi">> :> 61) @@ (<<"liu", "shi", "er">> :> 62)
    @@ (<<"liu", "shi", "san">> :> 63) @@ (<<"liu", "shi", "si">> :> 64) @@ (<<"liu", "shi", "wu">> :> 65)
    @@ (<<"liu", "shi", "liu">> :> 66) @@ (<<"liu", "shi", "qi">> :> 67) @@ (<<"liu", "shi", "ba">> :> 68)
    @@ (<<"liu", "shi", "jiu">> :> 69) @@ (<<"qi", "shi">> :> 70) @@ (<<"qi", "shi", "yi">> :> 71)
    @@ (<<"qi", "shi", "er">> :> 72) @@ (<<"qi", "shi", "san">> :> 73) @@ (<<"qi", "shi", "si">> :> 74)
    @@ (<<"qi", "shi", "wu">> :> 75) @@ (<<"qi", "shi", "liu">> :> 76) @@ (<<"qi", "shi", "qi">> :> 77)
    @@ (<<"qi", "shi", "ba">> :> 78) @@ (<<"qi", "shi", "jiu">> :> 79) @@ (<<"ba", "shi">> :> 80)
    @@ (<<"ba", "shi", "yi">> :> 81) @@ (<<"ba", "shi", "er">> :> 82) @@ (<<"ba", "shi", "san">> :> 83)
    @@ (<<"ba", "shi", "si">> :> 84) @@ (<<"ba", "shi", "wu">> :> 85) @@ (<<"ba", "shi", "liu">> :> 86)
    @@ (<<"ba", "shi", "qi">> :> 87) @@ (<<"ba", "shi", "ba">> :> 88) @@ (<<"ba", "shi", "jiu">> :> 89)
    @@ (<<"jiu", "shi">> :> 90) @@ (<<"jiu", "shi", "yi">> :> 91) @@ (<<"jiu", "shi", "er">> :> 92)
    @@ (<<"jiu", "shi", "san">> :> 93) @@ (<<"jiu", "shi", "si">> :> 94) @@ (<<"jiu", "shi", "wu">> :> 95)
    @@ (<<"jiu", "shi", "liu">> :> 96) @@ (<<"jiu", "shi", "qi">> :> 97) @@ (<<"jiu", "shi", "ba">> :> 98)
    @@ (<<"jiu", "shi", "jiu">> :> 99) @@ (<<"yi", "bai">> :> 100)

\* CHINESE_DIGITS.get(chinese_num, None)
chinese_to_arabic_table(chinese_num) ==
    IF chinese_num \in DOMAIN CHINESE_DIGITS
    THEN Some(CHINESE_DIGITS[chinese_num]) ELSE None

----------------------------------------------------------------------------
(* Regular-expression machinery over texts.  A match of a pattern at       *)
(* position i is given by its end: the position after its last character,  *)
(* or 0 when the pattern does not match at i.                              *)

\* the character at position i, "" outside the text
At(t, i) == IF i \in 1..Len(t) THEN t[i] ELSE ""

\* t[i..] starts with the literal lit
StartsWith(t, i, lit) ==
    /\ i >= 1
    /\ i + Len(lit) - 1 <= Len(t)
    /\ \A k \in 1..Len(lit) : t[i + k - 1] = lit[k]

\* the position after the longest run of characters of S that starts at i
RunEnd(t, i, S) ==
    CHOOSE j \in i..(Len(t) + 1) :
        /\ \A k \in i..(j - 1) : t[k] \in S
        /\ At(t, j) \notin S

\* the least position of the set S, or 0 when there is none
FirstPos(S) ==
    CHOOSE r \in {IF T = {} THEN 0 ELSE CHOOSE j \in T : \A k \in T : j <= k :
                    T \in {S}} : TRUE

\* the greatest position of the set S, or 0 when there is none
LastPos(S) ==
    CHOOSE r \in {IF T = {} THEN 0 ELSE CHOOSE j \in T : \A k \in T : j >= k :
                    T \in {S}} : TRUE

\* \s of a str pattern, over the characters of the model
Whitespace == {" ", "\t", "\n", "\r", "\f"}

\* [\x00-\x08\x0B-\x0C\x0E-\x1F\x7F]; "ctl" stands for one such character
ControlChars == {"ctl", "\f"}

\* di [cls]+ unit
MarkerEnd(t, i, cls, unit) ==
    IF At(t, i) = "di"
    THEN LET d == RunEnd(t, i + 1, cls) IN
         IF d > i + 1 /\ At(t, d) = unit THEN d + 1 ELSE 0
    ELSE 0

\* di \d+ hui
MarkerHuiEnd(t, i) == MarkerEnd(t, i, Digit, "hui")

Removed(t, i, e) == <<>>

----------------------------------------------------------------------------
(* clean_text.py: the rewriting sequence of clean_text                     *)

JIBIE == <<"ji", "bie", ":">>

ZUIHOUDENGLU == <<"zui", "hou", "deng", "lu", ":">>

POSTED == <<"P", "o", "s", "t", "e", "d", ":">>

\* ji bie : .*? zui hou deng lu : \d+ .*? (?= di \d+ hui | $ )   (DOTALL)
UserInfoEnd(t, i) ==
    IF ~StartsWith(t, i, JIBIE) THEN 0
    ELSE LET j == FirstPos({q \in (i + Len(JIBIE))..Len(t) :
                              /\ StartsWith(t, q, ZUIHOUDENGLU)
                              /\ At(t, q + Len(ZUIHOUDENGLU)) \in Digit})
         IN IF j = 0 THEN 0
            ELSE LET d == RunEnd(t, j + Len(ZUIHOUDENGLU), Digit) IN
                 FirstPos({p \in d..(Len(t) + 1) :
                              \/ MarkerHuiEnd(t, p) > 0
                              \/ p = Len(t) + 1
                              \/ (p = Len(t) /\ t[p] = "\n")})

\* Posted: \s* \d{4}-\d{2}-\d{2} .*? \n
PostedEnd(t, i) ==
    IF ~StartsWith(t, i, POSTED) THEN 0
    ELSE LET s == RunEnd(t, i + Len(POSTED), Whitespace) IN
         IF /\ \A k \in {0, 1, 2, 3, 5, 6, 8, 9} : At(t, s + k) \in Digit
            /\ At(t, s + 4) = "-"
            /\ At(t, s + 7) = "-"
         THEN LET n == FirstPos({q \in (s + 10)..Len(t) : t[q] = "\n"}) IN
              IF n = 0 THEN 0 ELSE n + 1
         ELSE 0

\* \[ \d+ \s+ lou \] \s*
FloorEnd(t, i) ==
    IF At(t, i) # "[" THEN 0
    ELSE LET d == RunEnd(t, i + 1, Digit)
             w == RunEnd(t, d, Whitespace)
         IN IF d > i + 1 /\ w > d /\ At(t, w) = "lou" /\ At(t, w + 1) = "]"
            THEN RunEnd(t, w + 2, Whitespace)
            ELSE 0

\* \n{3,} .*? ji bie : .*? \n{3,}   (DOTALL)
SignatureEnd(t, i) ==
    IF ~StartsWith(t, i, <<"\n", "\n", "\n">>) THEN 0
    ELSE LET a == RunEnd(t, i, {"\n"})
             j == FirstPos({q \in a..Len(t) : StartsWith(t, q, JIBIE)})
         IN IF j = 0 THEN 0
            ELSE LET n == FirstPos({r \in (j + Len(JIBIE))..Len(t) :
                                       StartsWith(t, r, <<"\n", "\n", "\n">>)})
                 IN IF n = 0 THEN 0 ELSE RunEnd(t, n, {"\n"})

SignatureRepl(t, i, e) == <<"\n", "\n">>

CrLfEnd(t, i) == IF StartsWith(t, i, <<"\r", "\n">>) THEN i + 2 ELSE 0

CrEnd(t, i) == IF At(t, i) = "\r" THEN i + 1 ELSE 0

NewlineRepl(t, i, e) == <<"\n">>

\* [ \t]+ $   (MULTILINE)
TrailingEnd(t, i) ==
    IF At(t, i) \notin {" ", "\t"} THEN 0
    ELSE LET e == RunEnd(t, i, {" ", "\t"}) IN
         IF e = Len(t) + 1 \/ At(t, e) = "\n" THEN e ELSE 0

\* \n{4,}
BlankRunEnd(t, i) ==
    IF StartsWith(t, i, <<"\n", "\n", "\n", "\n">>)
    THEN RunEnd(t, i, {"\n"}) ELSE 0

BlankRunRepl(t, i, e) == <<"\n", "\n", "\n">>

ControlEnd(t, i) == IF At(t, i) \in ControlChars THEN i + 1 ELSE 0

\* ([^\n]) \n (di \d+ hui)  ->  \1 \n \n \2
BeforeMarkerEnd(t, i) ==
    IF At(t, i) # "\n" /\ At(t, i + 1) = "\n"
    THEN MarkerHuiEnd(t, i + 2) ELSE 0

BeforeMarkerRepl(t, i, e) ==
    <<t[i], "\n", "\n">> \o SubSeq(t, i + 2, e - 1)

\* (di \d+ hui \s+) ([^\n]): the position of group 2, or 0.  \s+ is greedy;
\* when the whitespace run reaches the end of the text it gives characters
\* back until one that is no newline is left for group 2
AfterMarkerGroup2(t, i) ==
    LET m == MarkerHuiEnd(t, i) IN
    IF m = 0 THEN 0
    ELSE LET w == RunEnd(t, m, Whitespace) IN
         IF w = m THEN 0
         ELSE IF w <= Len(t) THEN w
         ELSE LastPos({k \in (m + 1)..Len(t) : t[k] # "\n"})

AfterMarkerEnd(t, i) ==
    LET g == AfterMarkerGroup2(t, i) IN IF g = 0 THEN 0 ELSE g + 1

\* (di \d+ hui \s+) ([^\n])  ->  \1 \n \2
AfterMarkerRepl(t, i, e) ==
    SubSeq(t, i, e - 2) \o <<"\n", t[e - 1]>>

\* str.strip()
Strip(text) ==
    LET strip(t) ==
          LET a == RunEnd(t, 1, Whitespace) IN
          IF a > Len(t) THEN <<>>
          ELSE SubSeq(t, a,
                      LastPos({k \in a..Len(t) : t[k] \notin Whitespace}))
    IN CHOOSE r \in {strip(t) : t \in {text}} : TRUE

----------------------------------------------------------------------------
(* md/process_chapters_reusable.py: the patterns format_chapter_content_sop *)
(* substitutes.  They are applied to single lines and to the joined text,   *)
(* neither of which holds a newline.                                        *)

\* [0-9 yi er san si wu liu qi ba jiu shi bai]
MarkerClass == Digit \cup ChineseNumeralClass

\* [hui zhang]
MarkerUnits == {"hui", "zhang"}

\* di [0-9 yi .. bai]+ [hui zhang]
MarkerAnyEnd(t, i) ==
    IF At(t, i) = "di"
    THEN LET d == RunEnd(t, i + 1, MarkerClass) IN
         IF d > i + 1 /\ At(t, d) \in MarkerUnits THEN d + 1 ELSE 0
    ELSE 0

\* di [0-9 yi .. bai]+ [hui zhang] \s*
MarkerWsEnd(t, i) ==
    LET m == MarkerAnyEnd(t, i) IN
    IF m = 0 THEN 0 ELSE RunEnd(t, m, Whitespace)

\* : \d{4}-\d{2}-\d{2} \s*
DateEnd(t, i) ==
    IF /\ At(t, i) = ":"
       /\ \A k \in {1, 2, 3, 4, 6, 7, 9, 10} : At(t, i + k) \in Digit
       /\ At(t, i + 5) = "-"
       /\ At(t, i + 8) = "-"
    THEN RunEnd(t, i + 11, Whitespace)
    ELSE 0

ZHUCESHIJIAN == <<"zhu", "ce", "shi2", "jian">>

LAST_LOGIN == <<"zui", "hou", "deng", "lu">>

\* ji bie : .*? zhu ce shi jian .*? zui hou deng lu .*? \s*
UserInfoLineEnd(t, i) ==
    IF ~StartsWith(t, i, JIBIE) THEN 0
    ELSE LET a == FirstPos({q \in (i + Len(JIBIE))..Len(t) :
                              StartsWith(t, q, ZHUCESHIJIAN)})
         IN IF a = 0 THEN 0
            ELSE LET b == FirstPos({q \in (a + Len(ZHUCESHIJIAN))..Len(t) :
                                      StartsWith(t, q, LAST_LOGIN)})
                 IN IF b = 0 THEN 0
                    ELSE RunEnd(t, b + Len(LAST_LOGIN), Whitespace)

\* \s+
WsRunEnd(t, i) ==
    IF At(t, i) \in Whitespace THEN RunEnd(t, i, Whitespace) ELSE 0

SpaceRepl(t, i, e) == <<" ">>

CHUANGTIDIDUAN == <<"chuang", "ti", "di3", "duan">>

\* the literal chuang ti di duan
WindowBottomEnd(t, i) ==
    IF StartsWith(t, i, CHUANGTIDIDUAN) THEN i + Len(CHUANGTIDIDUAN) ELSE 0

\* the literal ?
QuestionMarkEnd(t, i) == IF At(t, i) = "?" THEN i + 1 ELSE 0

\* the rewritings, each a pattern and its replacement
MatchEnd(pattern, t, i) ==
    CASE pattern = "user_info" -> UserInfoEnd(t, i)
      [] pattern = "posted" -> PostedEnd(t, i)
      [] pattern = "floor" -> FloorEnd(t, i)
      [] pattern = "signature" -> SignatureEnd(t, i)
      [] pattern = "crlf" -> CrLfEnd(t, i)
      [] pattern = "cr" -> CrEnd(t, i)
      [] pattern = "trailing" -> TrailingEnd(t, i)
      [] pattern = "blank_run" -> BlankRunEnd(t, i)
      [] pattern = "control" -> ControlEnd(t, i)
      [] pattern = "before_marker" -> BeforeMarkerEnd(t, i)
      [] pattern = "after_marker" -> AfterMarkerEnd(t, i)
      [] pattern = "marker_ws" -> MarkerWsEnd(t, i)
      [] pattern = "date" -> DateEnd(t, i)
      [] pattern = "user_info_line" -> UserInfoLineEnd(t, i)
      [] pattern = "ws_run" -> WsRunEnd(t, i)
      [] pattern = "window_bottom" -> WindowBottomEnd(t, i)
      [] pattern = "question_mark" -> QuestionMarkEnd(t, i)

Replacement(pattern, t, i, e) ==
    CASE pattern \in {"user_info", "posted", "floor", "trailing", "control",
                      "marker_ws", "date", "user_info_line", "window_bottom",
                      "question_mark"}
           -> Removed(t, i, e)
      [] pattern = "ws_run" -> SpaceRepl(t, i, e)
      [] pattern = "signature" -> SignatureRepl(t, i, e)
      [] pattern \in {"crlf", "cr"} -> NewlineRepl(t, i, e)
      [] pattern = "blank_run" -> BlankRunRepl(t, i, e)
      [] pattern = "before_marker" -> BeforeMarkerRepl(t, i, e)
      [] pattern = "after_marker" -> AfterMarkerRepl(t, i, e)

\* re.sub(pattern, repl, t): leftmost non-overlapping matches, scanning on
\* from the end of each match
RECURSIVE SubFrom(_, _, _)

\* the result of re.sub from position i of t on: the text up to the
\* leftmost match, its replacement, and the result from the match's end
SubFrom(pattern, t, i) ==
    CHOOSE r \in
      {IF m = 0 THEN SubSeq(t, i, Len(t))
       ELSE SubSeq(t, i, m - 1)
            \o Replacement(pattern, t, m, MatchEnd(pattern, t, m))
            \o SubFrom(pattern, t, MatchEnd(pattern, t, m)) :
         m \in {FirstPos({q \in i..Len(t) : MatchEnd(pattern, t, q) > 0})}}
      : TRUE

Sub(pattern, text) ==
    CHOOSE r \in {SubFrom(pattern, t, 1) : t \in {text}} : TRUE

RemoveForumInfo(t) ==
    Sub("signature", Sub("floor", Sub("posted", Sub("user_info", t))))

NormalizeWhitespace(t) ==
    Sub("blank_run", Sub("trailing", Sub("cr", Sub("crlf", t))))

RemoveControlChars(t) == Sub("control", t)

NormalizeMarkers(t) == Sub("after_marker", Sub("before_marker", t))

\* the content clean_text writes for the content it read
clean_text(content) ==
    Strip(NormalizeMarkers(RemoveControlChars(NormalizeWhitespace(
        RemoveForumInfo(content))))) \o <<"\n">>

----------------------------------------------------------------------------
(* Numeral parser harness: a token is drawn, both parsers are applied.     *)

MaxTokenLen == 3

Tokens ==
    UNION {[1..n -> ChineseNumeralChars] : n \in 1..MaxTokenLen}

NumeralIdle ==
    /\ token = <<>>
    /\ parsed = None
    /\ parsedTable = None
    /\ npc = "idle"

ParseToken ==
    /\ npc = "start"
    /\ parsed' = chinese_to_arabic(token)
    /\ parsedTable' = chinese_to_arabic_table(token)
    /\ npc' = "done"
    /\ UNCHANGED token
    /\ NumeralFrame

----------------------------------------------------------------------------
(* analyze_chapters.py: extract_chapter_number, find_chapters,             *)
(* generate_config                                                         *)

RECURSIVE IntOf(_)
\* int(digits)
IntOf(digits) ==
    IF Len(digits) = 0 THEN 0
    ELSE IntOf(SubSeq(digits, 1, Len(digits) - 1)) * 10
         + DigitValue(digits[Len(digits)])

RECURSIVE Str(_)
\* str(n) for n >= 0
Str(n) ==
    IF n < 10 THEN <<ArabicDigits[n + 1]>>
    ELSE Str(n \div 10) \o <<ArabicDigits[(n % 10) + 1]>>

\* re.search(r'di([cls]+)', text).group(1), or None
SearchNumeral(text, cls) ==
    LET i == FirstPos({q \in 1..Len(text) :
                          text[q] = "di" /\ At(text, q + 1) \in cls})
    IN IF i = 0 THEN None
       ELSE Some(SubSeq(text, i + 1, RunEnd(text, i + 1, cls) - 1))

\* the unified number of a marker text, or None
extract_chapter_number(match_text) ==
    LET arabic_match == SearchNumeral(match_text, Digit)
        chinese_match == SearchNumeral(match_text, ChineseNumeralClass)
    IN IF arabic_match # None THEN Some(IntOf(ValueOf(arabic_match)))
       ELSE IF chinese_match # None
            THEN chinese_to_arabic(ValueOf(chinese_match))
       ELSE None

\* the pattern families, in the order find_chapters tries them
patterns ==
    << [cls |-> Digit, unit |-> "hui", pattern_type |-> "arabic+hui"],
       [cls |-> ChineseNumeralClass, unit |-> "hui",
        pattern_type |-> "chinese+hui"],
       [cls |-> Digit, unit |-> "zhang", pattern_type |-> "arabic+zhang"],
       [cls |-> ChineseNumeralClass, unit |-> "zhang",
        pattern_type |-> "chinese+zhang"] >>

\* re.finditer(pattern, line): the matched texts, left to right
Matches(line, cls, unit) ==
    LET f[i \in 1..(Len(line) + 1)] ==
          IF i > Len(line) THEN <<>>
          ELSE LET e == MarkerEnd(line, i, cls, unit) IN
               IF e > 0 THEN <<SubSeq(line, i, e - 1)>> \o f[e]
               ELSE f[i + 1]
    IN f[1]

\* line.strip()[:100]
LineContext(line) ==
    LET st == Strip(line) IN SubSeq(st, 1, Min(Len(st), 100))

\* the inner loops of find_chapters for one line: the markers it appends
MarkersOfLine(line, line_num) ==
    LET tried == {k \in 1..Len(patterns) :
                    Matches(line, patterns[k].cls, patterns[k].unit) # <<>>}
    IN IF tried = {} THEN <<>>
       ELSE LET k == CHOOSE k \in tried : \A j \in tried : k <= j
                ms == Matches(line, patterns[k].cls, patterns[k].unit)
                i == FirstPos({q \in 1..Len(ms) :
                                  extract_chapter_number(ms[q]) # None})
            IN IF i = 0 THEN <<>>
               ELSE << [line |-> line_num,
                        original |-> ms[i],
                        number |-> ValueOf(extract_chapter_number(ms[i])),
                        pattern_type |-> patterns[k].pattern_type,
                        line_content |-> LineContext(line)] >>

\* a slip: the list is sorted by chapter number
sort_chapters_by_number(list) ==
    LET Insert(sorted, x) ==
          LET n == Cardinality({j \in 1..Len(sorted) :
                                   sorted[j].number <= x.number})
          IN SubSeq(sorted, 1, n) \o <<x>> \o SubSeq(sorted, n + 1, Len(sorted))
        f[n \in 0..Len(list)] ==
          IF n = 0 THEN <<>> ELSE Insert(f[n - 1], list[n])
    IN f[Len(list)]

\* chapters.sort(key=lambda x: x['line']): a stable sort
sort_chapters(list) ==
    LET Insert(sorted, x) ==
          LET n == Cardinality({j \in 1..Len(sorted) :
                                   sorted[j].line <= x.line})
          IN SubSeq(sorted, 1, n) \o <<x>> \o SubSeq(sorted, n + 1, Len(sorted))
        f[n \in 0..Len(list)] ==
          IF n = 0 THEN <<>> ELSE Insert(f[n - 1], list[n])
    IN f[Len(list)]

RECURSIVE sorted(_)
\* sorted(S) for a set of integers
sorted(S) ==
    IF S = {} THEN <<>>
    ELSE LET m == CHOOSE x \in S : \A y \in S : x <= y
         IN <<m>> \o sorted(S \ {m})

\* the chapter numbers of a marker list
NumbersOf(chs) == {chs[i].number : i \in 1..Len(chs)}

\* a slip: the range starts at 1 in place of the least number
missing_numbers_from1(chs) ==
    IF chs = <<>> THEN <<>>
    ELSE LET found_numbers == NumbersOf(chs)
             max_num == CHOOSE x \in found_numbers :
                            \A y \in found_numbers : x >= y
         IN sorted((1..max_num) \ found_numbers)

\* stats['missing_numbers']
missing_numbers(chs) ==
    IF chs = <<>> THEN <<>>
    ELSE LET found_numbers == NumbersOf(chs)
             min_num == CHOOSE x \in found_numbers :
                            \A y \in found_numbers : x <= y
             max_num == CHOOSE x \in found_numbers :
                            \A y \in found_numbers : x >= y
         IN sorted((min_num..max_num) \ found_numbers)

\* number_counts[num]: the markers numbered num, in list order
number_counts(chs, num) ==
    LET HasNumber(ch) == ch.number = num IN SelectSeq(chs, HasNumber)

\* a slip: a group is reported from three markers on
duplicates_over2(chs) ==
    [num \in {n \in NumbersOf(chs) : Len(number_counts(chs, n)) > 2}
        |-> number_counts(chs, num)]

\* stats['duplicates']
duplicates(chs) ==
    [num \in {n \in NumbersOf(chs) : Len(number_counts(chs, n)) > 1}
        |-> number_counts(chs, num)]

\* stats['by_pattern']
by_pattern(chs) ==
    [pt \in {chs[i].pattern_type : i \in 1..Len(chs)}
        |-> Cardinality({i \in 1..Len(chs) : chs[i].pattern_type = pt})]

\* stats['by_number']: the last marker of each number
by_number(chs) ==
    [num \in NumbersOf(chs)
        |-> chs[LastPos({i \in 1..Len(chs) : chs[i].number = num})]]

\* the statistics analyze_chapters returns
analyze_chapters(chs) ==
    [total |-> Len(chs),
     by_pattern |-> by_pattern(chs),
     by_number |-> by_number(chs),
     missing_numbers |-> missing_numbers(chs),
     duplicates |-> duplicates(chs)]

\* a slip: a record ends on the line of the next marker
chapter_records_noMinus(chs) ==
    [i \in 1..Len(chs) |->
        [number |-> chs[i].number,
         original |-> chs[i].original,
         pattern_type |-> chs[i].pattern_type,
         start_line |-> chs[i].line,
         end_line |-> IF i + 1 <= Len(chs)
                      THEN Some(chs[i + 1].line) ELSE None]]

\* the records generate_config computes
chapter_records(chs) ==
    [i \in 1..Len(chs) |->
        [number |-> chs[i].number,
         original |-> chs[i].original,
         pattern_type |-> chs[i].pattern_type,
         start_line |-> chs[i].line,
         end_line |-> IF i + 1 <= Len(chs)
                      THEN Some(chs[i + 1].line - 1) ELSE None]]

\* the config generate_config writes
generate_config(chs) ==
    [total_chapters |-> Len(chs), chapters |-> chapter_records(chs)]

----------------------------------------------------------------------------
(* extract_chapters.py: extract_chapter_content, extract_all_chapters      *)

RECURSIVE JoinLines(_)
\* ''.join(lines), every line with its terminator
JoinLines(lines) ==
    IF Len(lines) = 0 THEN <<>>
    ELSE lines[1] \o <<"\n">> \o JoinLines(Tail(lines))

\* the content of the lines from start_line as the code cuts it, or None
extract_chapter_content(lines, start_line, end_line) ==
    LET total_lines == Len(lines)
        start_idx == Max(0, start_line - 1)
        end_idx == IF end_line = None THEN total_lines
                   ELSE Min(ValueOf(end_line) - 1, total_lines)
    IN IF start_idx >= end_idx THEN None
       ELSE Some(JoinLines(SubSeq(lines, start_idx + 1, end_idx)))

\* a slip: range(1, 100) in place of range(1, 101)
missing_chapter_numbers_short(recs) ==
    (1..99) \ {recs[i].number : i \in 1..Len(recs)}

\* all_chapter_numbers - found_chapter_numbers
missing_chapter_numbers(recs) ==
    (1..100) \ {recs[i].number : i \in 1..Len(recs)}

\* the text of the placeholder file of chapter_num
placeholder_content(chapter_num) ==
    <<"ben", "zhang", "jie", "fw(", "di">> \o Str(chapter_num)
    \o <<"zhang", "fw)", "zai", "yuan", "wen", "dang", "zhong", "que",
         "shi1", "fw.", "\n">>

\* f with f[k] set to v, k added to the domain when new
Write(f, k, v) == [x \in DOMAIN f \cup {k} |-> IF x = k THEN v ELSE f[x]]

----------------------------------------------------------------------------
(* md/process_chapters_reusable.py: format_chapter_content_sop,             *)
(* generate_markdown, generate_placeholder, process_chapter_sop             *)

PARAGRAPH_MIN_LENGTH == 100

NEXT_SENTENCE_MIN_LENGTH == 20

MISSING_CHAPTER_MAX_SIZE == 100

\* [fw. fw, fw! fw?], the class the subtitle patterns exclude
SentencePunct == {"fw.", "fw,", "fw!", "fw?"}

\* [fw. fw! fw?], the class the text is split on
Terminal == {"fw.", "fw!", "fw?"}

OpenParen == {"fw(", "("}

CloseParen == {"fw)", ")"}

\* the literal keywords of the forum-information pattern
ForumKeywords ==
    { JIBIE, <<"fa", "tie", ":">>, POSTED,
      <<"tang", "zhong", "wei", "wang4">>, <<"gong", "xian", "zhi">>,
      ZHUCESHIJIAN, LAST_LOGIN, <<"meng", "zhong", "de", "wang", "zi">> }

\* re.search(r'\[.*lou\]', t): . does not cross a newline
HasFloorTag(text) ==
    \E t \in {text} :
        \E i \in 1..Len(t) : \E j \in (i + 1)..Len(t) :
            /\ t[i] = "["
            /\ t[j] = "lou"
            /\ At(t, j + 1) = "]"
            /\ \A k \in (i + 1)..(j - 1) : t[k] # "\n"

\* re.search of the forum-information pattern
HasForumInfo(text) ==
    \E t \in {text} :
        \/ \E i \in 1..Len(t) :
              \E kw \in ForumKeywords : StartsWith(t, i, kw)
        \/ HasFloorTag(t)

\* re.search(r'Posted:|\[.*lou\]|meng zhong de wang zi', t)
HasPostNoise(text) ==
    \E t \in {text} :
        \/ \E i \in 1..Len(t) :
              \/ StartsWith(t, i, POSTED)
              \/ StartsWith(t, i, <<"meng", "zhong", "de", "wang", "zi">>)
        \/ HasFloorTag(t)

\* re.search of the chapter-marker pattern: group(1), or None
SearchMarker(text) ==
    LET search(t, i) ==
          IF i = 0 THEN None
          ELSE Some(SubSeq(t, i + 1, MarkerAnyEnd(t, i) - 2))
    IN CHOOSE r \in
         {search(t, FirstPos({q \in 1..Len(t) : MarkerAnyEnd(t, q) > 0})) :
            t \in {text}} : TRUE

\* the unified number of a numeral string, or None
normalize_chapter_number(chapter_str) ==
    IF \A k \in 1..Len(chapter_str) : chapter_str[k] \in Digit
    THEN Some(IntOf(chapter_str))
    ELSE chinese_to_arabic_table(chapter_str)

\* content.split('\n')
RECURSIVE SplitLinesFrom(_, _)

SplitLinesFrom(t, i) ==
    CHOOSE r \in
      {IF j = 0 THEN <<SubSeq(t, i, Len(t))>>
       ELSE <<SubSeq(t, i, j - 1)>> \o SplitLinesFrom(t, j + 1) :
         j \in {FirstPos({q \in i..Len(t) : t[q] = "\n"})}} : TRUE

SplitLines(text) ==
    CHOOSE r \in {SplitLinesFrom(t, 1) : t \in {text}} : TRUE

\* sep.join(list)
RECURSIVE JoinFirst(_, _, _)

\* the first n texts of list, joined with sep
JoinFirst(list, sep, n) ==
    IF n = 0 THEN <<>>
    ELSE IF n = 1 THEN list[1]
    ELSE JoinFirst(list, sep, n - 1) \o sep \o list[n]

JoinWith(texts, sep) ==
    CHOOSE r \in {JoinFirst(list, sep, Len(list)) : list \in {texts}} : TRUE

\* where group 2 of  ... \s+ (.+) $  starts when \s+ starts at position w,
\* or 0: \s+ is greedy and gives one character back when the whitespace
\* runs to the end of the text
TailGroup(t, w) ==
    IF At(t, w) \notin Whitespace THEN 0
    ELSE LET e == RunEnd(t, w, Whitespace) IN
         IF e <= Len(t) THEN e
         ELSE IF e - w >= 2 THEN Len(t)
         ELSE 0

\* the prefix lengths p with t[1..p] free of sentence punctuation and an
\* opening parenthesis at p + 1
ParenPrefixes(t) ==
    {p \in 0..(Len(t) - 1) :
        /\ \A k \in 1..p : t[k] \notin SentencePunct
        /\ t[p + 1] \in OpenParen}

\* re.match(r'^([^fw. fw, fw! fw?]*[fw( (].*?[fw) )])\s+(.+)$', t): group(2),
\* or None.  The prefix is greedy, the parenthesis content lazy.
SubtitleBody(text) ==
    LET Closers(t, p) == {c \in (p + 2)..Len(t) :
                             t[c] \in CloseParen /\ TailGroup(t, c + 1) > 0}
        group2(t, ps) ==
          IF ps = {} THEN None
          ELSE LET c == FirstPos(Closers(t, LastPos(ps))) IN
               Some(SubSeq(t, TailGroup(t, c + 1), Len(t)))
    IN CHOOSE r \in
         {group2(t, {p \in ParenPrefixes(t) : Closers(t, p) # {}}) :
            t \in {text}} : TRUE

\* re.match(r'^[^fw. fw, fw! fw?]*[fw( (].*?[fw) )]$', t)
ParenSubtitleOnly(text) ==
    \E t \in {text} :
        /\ Len(t) >= 2
        /\ t[Len(t)] \in CloseParen
        /\ \E p \in ParenPrefixes(t) : p + 2 <= Len(t)

\* re.match(r'^([^fw. fw, fw! fw?]{2,10})\s+(.+)$', t): groups 1 and 2, or
\* None
SimpleSubtitle(text) ==
    LET groups(t, ks) ==
          IF ks = {} THEN None
          ELSE LET k == LastPos(ks) IN
               Some([subtitle_part |-> SubSeq(t, 1, k),
                     body_part |-> SubSeq(t, TailGroup(t, k + 1), Len(t))])
    IN CHOOSE r \in
         {groups(t, {k \in 2..10 :
                        /\ k <= Len(t)
                        /\ \A j \in 1..k : t[j] \notin SentencePunct
                        /\ TailGroup(t, k + 1) > 0}) :
            t \in {text}} : TRUE

\* what filtered.append is given: nothing for an empty text
Kept(text) ==
    CHOOSE r \in {IF t # <<>> THEN <<t>> ELSE <<>> : t \in {text}} : TRUE

\* a line that carries the marker of this chapter: what it appends
OwnMarkerLine(stripped, forum) ==
    LET r0 == IF forum THEN Sub("user_info_line", stripped) ELSE stripped
        r1 == Strip(Sub("question_mark", Sub("marker_ws", r0)))
        rest(remaining, subtitle_match, simple_subtitle_match) ==
          IF subtitle_match # None
          THEN Kept(Sub("marker_ws", Strip(ValueOf(subtitle_match))))
          ELSE IF ParenSubtitleOnly(remaining) /\ Len(remaining) < 50
          THEN <<>>
          ELSE IF /\ simple_subtitle_match # None
                  /\ Len(ValueOf(simple_subtitle_match).subtitle_part) <= 10
                  /\ Len(ValueOf(simple_subtitle_match).body_part) > 20
               THEN Kept(Sub("marker_ws",
                             Strip(ValueOf(simple_subtitle_match).body_part)))
          ELSE Kept(Sub("marker_ws", remaining))
    IN CHOOSE r \in
         {rest(remaining, sm, ss) :
            remaining \in {Sub("date", r1)},
            sm \in {SubtitleBody(Sub("date", r1))},
            ss \in {SimpleSubtitle(Sub("date", r1))}} : TRUE

\* the first line when it carries no marker: what it appends
FirstLine(stripped) ==
    LET Scrub(t) == Sub("date", Sub("marker_ws", t))
        first(subtitle_match, simple_subtitle_match) ==
          IF subtitle_match # None
          THEN Kept(Scrub(Strip(ValueOf(subtitle_match))))
          ELSE IF /\ simple_subtitle_match # None
                  /\ Len(ValueOf(simple_subtitle_match).subtitle_part) <= 10
                  /\ Len(ValueOf(simple_subtitle_match).body_part) > 20
                  /\ Scrub(Strip(ValueOf(simple_subtitle_match).body_part))
                     # <<>>
               THEN <<Scrub(Strip(ValueOf(simple_subtitle_match).body_part))>>
          ELSE Kept(Scrub(stripped))
    IN CHOOSE r \in
         {first(sm, ss) : sm \in {SubtitleBody(stripped)},
                          ss \in {SimpleSubtitle(stripped)}} : TRUE

\* a line inside the chapter that is neither forum information nor a
\* marker line: what it appends
BodyLine(stripped) ==
    LET Scrub(t) == Sub("date", Sub("marker_ws", t))
        body(subtitle_match) ==
          IF ParenSubtitleOnly(stripped) /\ Len(stripped) < 50 THEN <<>>
          ELSE IF subtitle_match # None
               THEN Kept(Scrub(Strip(ValueOf(subtitle_match))))
          ELSE IF /\ \A k \in 1..Len(stripped) :
                        stripped[k] \notin SentencePunct
                  /\ Len(stripped) < 20
               THEN <<>>
          ELSE IF stripped = <<"?">> THEN <<>>
          ELSE LET s1 == IF stripped[1] = "?" THEN Strip(Tail(stripped))
                         ELSE stripped
                   s2 == Strip(Sub("window_bottom", s1))
               IN Kept(Scrub(s2))
    IN CHOOSE r \in {body(sm) : sm \in {SubtitleBody(stripped)}} : TRUE

\* the number of the first marker of the line is chapter_num
IsOwnMarker(stripped, chapter_num) ==
    \E chapter_match \in {SearchMarker(stripped)} :
        /\ chapter_match # None
        /\ normalize_chapter_number(ValueOf(chapter_match))
           = Some(chapter_num)

\* one iteration of the line loop: what the line appends to filtered,
\* start_processing after it, and whether the loop breaks
FilterLine(line, i, chapter_num, started) ==
    LET classify(stripped) ==
          IF stripped = <<>>
          THEN [out |-> IF started THEN << <<>> >> ELSE <<>>,
                started |-> started, stop |-> FALSE]
          ELSE IF HasForumInfo(stripped)
          THEN IF IsOwnMarker(stripped, chapter_num)
               THEN [out |-> OwnMarkerLine(stripped, TRUE),
                     started |-> TRUE, stop |-> FALSE]
               ELSE [out |-> <<>>, started |-> started, stop |-> FALSE]
          ELSE IF SearchMarker(stripped) # None
          THEN IF IsOwnMarker(stripped, chapter_num)
               THEN [out |-> OwnMarkerLine(stripped, FALSE),
                     started |-> TRUE, stop |-> FALSE]
               ELSE [out |-> <<>>, started |-> started, stop |-> started]
          ELSE IF i = 0 /\ ~started
          THEN [out |-> FirstLine(stripped), started |-> TRUE,
                stop |-> FALSE]
          ELSE IF ~started
          THEN [out |-> <<>>, started |-> FALSE, stop |-> FALSE]
          ELSE [out |-> BodyLine(stripped), started |-> TRUE,
                stop |-> FALSE]
    IN CHOOSE r \in {classify(stripped) : stripped \in {Strip(line)}} : TRUE

\* the joined text, scrubbed once more, with whitespace runs made one space
FullText(filtered_lines) ==
    Sub("ws_run", Sub("date", Sub("marker_ws",
        JoinWith(filtered_lines, <<" ">>))))

\* re.split(r'([fw. fw! fw?])', t): texts and terminators alternate
RECURSIVE SplitSentencesFrom(_, _)

SplitSentencesFrom(t, i) ==
    CHOOSE r \in
      {IF j = 0 THEN <<SubSeq(t, i, Len(t))>>
       ELSE <<SubSeq(t, i, j - 1), <<t[j]>> >>
            \o SplitSentencesFrom(t, j + 1) :
         j \in {FirstPos({q \in i..Len(t) : t[q] \in Terminal})}} : TRUE

SplitSentences(text) ==
    CHOOSE r \in {SplitSentencesFrom(t, 1) : t \in {text}} : TRUE

\* parts[i], '' past the end of the list (i counts from 1)
PartAt(ps, i) == IF i \in 1..Len(ps) THEN ps[i] ELSE <<>>

\* a slip: the length of the paragraph is not looked at
should_close_nextOnly(current_para_text, next_sentence) ==
    Len(next_sentence) > NEXT_SENTENCE_MIN_LENGTH

\* a slip: the next sentence is not looked at
should_close_curOnly(current_para_text, next_sentence) ==
    Len(current_para_text) > PARAGRAPH_MIN_LENGTH

\* the test that closes the current paragraph
should_close(current_para_text, next_sentence) ==
    /\ Len(next_sentence) > NEXT_SENTENCE_MIN_LENGTH
    /\ Len(current_para_text) > PARAGRAPH_MIN_LENGTH

\* generate_markdown
generate_markdown(chapter_num, formatted_content) ==
    <<"#", " ", "di">> \o Str(chapter_num) \o <<"zhang", "\n", "\n">>
    \o (IF Strip(formatted_content) = <<>>
        THEN <<"ben", "zhang", "jie", "nei", "rong", "wei2", "kong", "fw.">>
        ELSE formatted_content)

\* the document generate_placeholder writes
generate_placeholder(chapter_num) ==
    <<"#", " ", "di">> \o Str(chapter_num) \o <<"zhang", "\n", "\n">>
    \o <<"ben", "zhang", "jie", "zai", "yuan", "wen", "dang", "zhong", "que",
         "shi1", "fw.">>

\* process_chapter_sop takes the raw content for a forum-only stub
IsForumStub(content) ==
    /\ Len(Strip(content)) < MISSING_CHAPTER_MAX_SIZE
    /\ HasPostNoise(content)
    /\ \A i \in 1..Len(content) : MarkerAnyEnd(content, i) = 0

\* one iteration of the while loop at parts[i] (i counts from 1): the new
\* current_para and paragraphs
AccumulateAt(ps, i, cur, paras) ==
    LET step(sentence, next_sentence, para_text) ==
          LET appended == Append(cur, sentence)
              closed == [current_para |-> <<>>,
                         paragraphs |-> paras \o Kept(Strip(para_text))]
          IN IF sentence = <<>>
             THEN [current_para |-> cur, paragraphs |-> paras]
             ELSE IF sentence[Len(sentence)] \notin Terminal
             THEN [current_para |-> appended, paragraphs |-> paras]
             ELSE IF i + 2 <= Len(ps)
             THEN IF should_close(para_text, next_sentence) THEN closed
                  ELSE [current_para |-> appended, paragraphs |-> paras]
             ELSE closed
    IN IF Strip(ps[i]) = <<>>
       THEN [current_para |-> cur, paragraphs |-> paras]
       ELSE CHOOSE r \in
              {step(sentence, next_sentence,
                    JoinWith(Append(cur, sentence), <<" ">>)) :
                 sentence \in {Strip(ps[i] \o PartAt(ps, i + 1))},
                 next_sentence
                   \in {Strip(PartAt(ps, i + 2) \o PartAt(ps, i + 3))}} : TRUE

\* what is left in current_para after the loop becomes the last paragraph
FinalParagraphs(cur, paras) ==
    IF cur # <<>> THEN paras \o Kept(Strip(JoinWith(cur, <<" ">>)))
    ELSE paras

\* '\n\n'.join(paragraphs).strip()
JoinParagraphs(paras) == Strip(JoinWith(paras, <<"\n", "\n">>))

\* the line loop as a whole: filtered after it
RECURSIVE FilterFirst(_, _, _)

\* the loop's variables after the first n lines
FilterFirst(lines, num, n) ==
    IF n = 0 THEN [filtered |-> <<>>, started |-> FALSE, stop |-> FALSE]
    ELSE CHOOSE s \in
           {IF prev.stop THEN prev
            ELSE CHOOSE s2 \in
                   {[filtered |-> prev.filtered \o r.out,
                     started |-> r.started, stop |-> r.stop] :
                      r \in {FilterLine(lines[n], n - 1, num,
                                        prev.started)}} : TRUE :
              prev \in {FilterFirst(lines, num, n - 1)}} : TRUE

FilterLoop(content_lines, num) ==
    CHOOSE r \in {FilterFirst(lines, num, Len(lines)) :
                    lines \in {content_lines}} : TRUE

\* the while loop as a whole: paragraphs after it
RECURSIVE AccumulateFirst(_, _)

\* the loop's variables after the first k iterations
AccumulateFirst(ps, k) ==
    IF k = 0 THEN [current_para |-> <<>>, paragraphs |-> <<>>]
    ELSE CHOOSE s \in
           {AccumulateAt(ps, 2 * k - 1, prev.current_para,
                         prev.paragraphs) :
              prev \in {AccumulateFirst(ps, k - 1)}} : TRUE

ParagraphLoop(sentence_parts) ==
    CHOOSE r \in
      {FinalParagraphs(last.current_para, last.paragraphs) :
         last \in {AccumulateFirst(ps, (Len(ps) + 1) \div 2) :
                     ps \in {sentence_parts}}} : TRUE

\* the text format_chapter_content_sop returns
format_chapter_content_sop(content, num) ==
    JoinParagraphs(ParagraphLoop(SplitSentences(FullText(
        FilterLoop(SplitLines(content), num).filtered))))

\* the document process_chapter_sop writes for a formatted text
ResultDocument(num, formatted_content) ==
    IF \/ Strip(formatted_content) = <<>>
       \/ Strip(formatted_content)
          = <<"ben", "zhang", "jie", "nei", "rong", "wei2", "kong", "fw.">>
    THEN generate_placeholder(num)
    ELSE generate_markdown(num, formatted_content)

----------------------------------------------------------------------------
(* Reflow harness: a raw chapter file is drawn and process_chapter_sop is   *)
(* run on it, the two loops of format_chapter_content_sop one iteration at  *)
(* a time.                                                                  *)

MaxRawLines == 3

\* n - 1 characters c and a full stop: a sentence of n characters
Sentence(c, n) == [k \in 1..n |-> IF k < n THEN c ELSE "fw."]

\* di 3 hui  jue dai feng hua  lin dai yu chu ru rong guo fu, zhong ren jie
\* jing.
SubtitledLine ==
    <<"di", "3", "hui", " ", "jue", "dai4", "feng", "hua", " ", "lin", "dai",
      "yu", "chu", "ru", "rong", "guo", "fu", "fw,", "zhong4", "ren", "jie1",
      "jing", "fw.">>

\* the lines raw files are made of: markers of this chapter and of the
\* next, a forum line naming the next chapter, and sentences whose lengths
\* lie on both sides of the two thresholds
RawLineSet ==
    { <<"di", "3", "hui">>,
      <<"di", "4", "hui">>,
      JIBIE \o <<"di", "4", "hui">>,
      Sentence("x", 50),
      Sentence("x", 49),
      Sentence("y", 21),
      Sentence("y", 20) }

FloorLine == <<"[", "1", " ", "lou", "]">>

\* x ... x?! y ... y.
DoubleTerminal ==
    [k \in 1..25 |-> "x"] \o <<"fw?", "fw!">> \o Sentence("y", 26)

\* . x ... x.
LeadingTerminal == <<"fw.">> \o Sentence("x", 30)

\* raw files of their own: the subtitled marker line, forum-only files, a
\* blank file, a file with a blank line and a short heading in it, and
\* files with two terminators in a row and with a terminator first
SpecialTexts ==
    { SubtitledLine,
      FloorLine,
      FloorLine \o <<"\n">> \o Sentence("x", 50),
      <<" ", "\n">>,
      <<"di", "3", "hui", "\n", "\n", "a", "b", "\n">>
        \o Sentence("x", 50),
      <<"di", "3", "hui", "\n">> \o DoubleTerminal,
      <<"di", "3", "hui", "\n">> \o LeadingTerminal }

\* the raw files of chapter 3: at most MaxRawLines lines, and the special
\* ones
RawTexts ==
    {JoinWith(ls, <<"\n">>) :
        ls \in UNION {[1..n -> RawLineSet] : n \in 0..MaxRawLines}}
    \cup SpecialTexts

ReflowIdle ==
    /\ raw = None
    /\ chapterNum = 0
    /\ rpc = "idle"
    /\ rawLines = <<>>
    /\ lineIdx = 0
    /\ filtered = <<>>
    /\ start_processing = FALSE
    /\ skip_next_chapter = FALSE
    /\ parts = <<>>
    /\ partIdx = 0
    /\ current_para = <<>>
    /\ paragraphs = <<>>
    /\ formatted = None
    /\ resultFile = None
    /\ sopReturn = None

\* process_chapter_sop: the raw file is absent or blank
ChapterEmpty ==
    /\ rpc = "start"
    /\ IF raw = None THEN TRUE ELSE Strip(ValueOf(raw)) = <<>>
    /\ sopReturn' = Some(FALSE)
    /\ rpc' = "done"
    /\ UNCHANGED <<raw, chapterNum, rawLines, lineIdx, filtered,
                   start_processing, skip_next_chapter, parts, partIdx,
                   current_para, paragraphs, formatted, resultFile>>
    /\ ReflowFrame

\* process_chapter_sop: a short forum-only raw file gives the placeholder
ForumStub ==
    /\ rpc = "start"
    /\ raw # None
    /\ Strip(ValueOf(raw)) # <<>>
    /\ IsForumStub(ValueOf(raw))
    /\ resultFile' = Some(generate_placeholder(chapterNum))
    /\ sopReturn' = Some(TRUE)
    /\ rpc' = "done"
    /\ UNCHANGED <<raw, chapterNum, rawLines, lineIdx, filtered,
                   start_processing, skip_next_chapter, parts, partIdx,
                   current_para, paragraphs, formatted>>
    /\ ReflowFrame

\* process_chapter_sop calls format_chapter_content_sop: the content is split
StartFormat ==
    /\ rpc = "start"
    /\ raw # None
    /\ Strip(ValueOf(raw)) # <<>>
    /\ ~IsForumStub(ValueOf(raw))
    /\ rawLines' = SplitLines(ValueOf(raw))
    /\ lineIdx' = 0
    /\ rpc' = "filter"
    /\ UNCHANGED <<raw, chapterNum, filtered, start_processing,
                   skip_next_chapter, parts, partIdx, current_para,
                   paragraphs, formatted, resultFile, sopReturn>>
    /\ ReflowFrame

\* the line loop, one line
FilterStep ==
    /\ rpc = "filter"
    /\ ~skip_next_chapter
    /\ lineIdx < Len(rawLines)
    /\ \E r \in {FilterLine(rawLines[lineIdx + 1], lineIdx, chapterNum,
                            start_processing)} :
          /\ filtered' = filtered \o r.out
          /\ start_processing' = r.started
          /\ skip_next_chapter' = r.stop
    /\ lineIdx' = lineIdx + 1
    /\ UNCHANGED <<raw, chapterNum, rpc, rawLines, parts, partIdx,
                   current_para, paragraphs, formatted, resultFile,
                   sopReturn>>
    /\ ReflowFrame

\* after the line loop: the text is joined, scrubbed and split
SplitText ==
    /\ rpc = "filter"
    /\ skip_next_chapter \/ lineIdx >= Len(rawLines)
    /\ parts' = SplitSentences(FullText(filtered))
    /\ partIdx' = 1
    /\ rpc' = "accumulate"
    /\ UNCHANGED <<raw, chapterNum, rawLines, lineIdx, filtered,
                   start_processing, skip_next_chapter, current_para,
                   paragraphs, formatted, resultFile, sopReturn>>
    /\ ReflowFrame

\* the while loop, one sentence
AccumulateStep ==
    /\ rpc = "accumulate"
    /\ partIdx <= Len(parts)
    /\ \E r \in {AccumulateAt(parts, partIdx, current_para, paragraphs)} :
          /\ current_para' = r.current_para
          /\ paragraphs' = r.paragraphs
    /\ partIdx' = partIdx + 2
    /\ UNCHANGED <<raw, chapterNum, rpc, rawLines, lineIdx, filtered,
                   start_processing, skip_next_chapter, parts, formatted,
                   resultFile, sopReturn>>
    /\ ReflowFrame

\* after the while loop: the last paragraph, the value returned, and the
\* document process_chapter_sop writes for it
FinishChapter ==
    /\ rpc = "accumulate"
    /\ partIdx > Len(parts)
    /\ paragraphs' = FinalParagraphs(current_para, paragraphs)
    /\ formatted' = Some(JoinParagraphs(paragraphs'))
    /\ resultFile' = Some(ResultDocument(chapterNum, ValueOf(formatted')))
    /\ sopReturn' = Some(TRUE)
    /\ rpc' = "done"
    /\ UNCHANGED <<raw, chapterNum, rawLines, lineIdx, filtered,
                   start_processing, skip_next_chapter, parts, partIdx,
                   current_para>>
    /\ ReflowFrame

----------------------------------------------------------------------------
(* Pipeline harness: a corpus is drawn; analyze_chapters.main scans it and *)
(* writes the config, extract_chapters then cuts the chapter files.        *)

MaxLines == 3

CorpusLines ==
    { <<"di", "1", "hui", " ", "a">>,
      <<"di", "er", "hui">>,
      <<"a">>,
      <<"b">>,
      <<"di", "1", "zhang", "di", "2", "hui">>,
      <<"di", "yi", "er", "hui", "di", "san", "hui">>,
      <<"di", "2", "hui", "di", "3", "hui">>,
      <<"di", "san", "zhang">>,
      <<"di", "bai", "bai", "zhang", " ", "b">> }

Corpora == UNION {[1..n -> CorpusLines] : n \in 0..MaxLines}

PipeIdle ==
    /\ corpus = <<>>
    /\ ppc = "idle"
    /\ lineNo = 0
    /\ chapters = <<>>
    /\ stats = None
    /\ config = None
    /\ recIdx = 0
    /\ extracted = None
    /\ files = <<>>
    /\ extracted_count = 0
    /\ failed = <<>>

\* find_chapters, one line of the file
ScanLine ==
    /\ ppc = "scan"
    /\ lineNo <= Len(corpus)
    /\ chapters' = chapters \o MarkersOfLine(corpus[lineNo], lineNo)
    /\ lineNo' = lineNo + 1
    /\ UNCHANGED <<corpus, ppc, stats, config, recIdx, extracted, files,
                   extracted_count, failed>>
    /\ PipeFrame

\* find_chapters at the end of the file: sort and return
FinishScan ==
    /\ ppc = "scan"
    /\ lineNo > Len(corpus)
    /\ chapters' = sort_chapters(chapters)
    /\ ppc' = "found"
    /\ UNCHANGED <<corpus, lineNo, stats, config, recIdx, extracted, files,
                   extracted_count, failed>>
    /\ PipeFrame

\* analyze_chapters.main with no marker found: it returns, no config
NoChapters ==
    /\ ppc = "found"
    /\ chapters = <<>>
    /\ ppc' = "no_chapters"
    /\ UNCHANGED <<corpus, lineNo, chapters, stats, config, recIdx, extracted,
                   files,
                   extracted_count, failed>>
    /\ PipeFrame

\* analyze_chapters.main with markers: analyze_chapters computes the
\* statistics, generate_config writes the config
GenerateConfig ==
    /\ ppc = "found"
    /\ chapters # <<>>
    /\ stats' = Some(analyze_chapters(chapters))
    /\ config' = Some(generate_config(chapters))
    /\ ppc' = "configured"
    /\ UNCHANGED <<corpus, lineNo, chapters, recIdx, extracted, files,
                   extracted_count, failed>>
    /\ PipeFrame

\* extract_all_chapters up to its loop: the config is loaded
StartExtract ==
    /\ ppc = "configured"
    /\ ValueOf(config).chapters # <<>>
    /\ recIdx' = 1
    /\ ppc' = "extract"
    /\ UNCHANGED <<corpus, lineNo, chapters, stats, config, extracted, files,
                   extracted_count, failed>>
    /\ PipeFrame

\* extract_all_chapters, one record of the config
ExtractRecord ==
    /\ ppc = "extract"
    /\ recIdx <= Len(ValueOf(config).chapters)
    /\ LET chapter == ValueOf(config).chapters[recIdx]
           c == extract_chapter_content(corpus, chapter.start_line,
                                        chapter.end_line)
       IN /\ extracted' = c
          /\ IF c # None /\ ValueOf(c) # <<>>
             THEN /\ files' = Write(files, chapter.number, ValueOf(c))
                  /\ extracted_count' = extracted_count + 1
                  /\ UNCHANGED failed
             ELSE /\ failed' = Append(failed, chapter.number)
                  /\ UNCHANGED <<files, extracted_count>>
    /\ recIdx' = recIdx + 1
    /\ UNCHANGED <<corpus, ppc, lineNo, chapters, stats, config>>
    /\ PipeFrame

\* extract_all_chapters after its loop: the placeholder files
WritePlaceholders ==
    /\ ppc = "extract"
    /\ recIdx > Len(ValueOf(config).chapters)
    /\ \E missing \in {missing_chapter_numbers(ValueOf(config).chapters)} :
         files' = [n \in DOMAIN files \cup missing |->
                      IF n \in missing THEN placeholder_content(n)
                      ELSE files[n]]
    /\ ppc' = "done"
    /\ UNCHANGED <<corpus, lineNo, chapters, stats, config, recIdx, extracted,
                   extracted_count, failed>>
    /\ PipeFrame

----------------------------------------------------------------------------
(* Extraction harness: extract_all_chapters is run on a corpus and a       *)
(* chapters_config.json whose records carry any line spans.                *)

\* the corpora l1 .. ln
ExtractCorpora ==
    {[i \in 1..n |-> <<"l">> \o Str(i)] : n \in 0..MaxLines}

\* the line numbers a record may carry
SpanLines == (0 - 1)..(MaxLines + 1)

\* the records of a config, with the fields extract_all_chapters reads
SpanRecords ==
    [number : {1, 2}, start_line : SpanLines,
     end_line : {None} \cup {Some(e) : e \in SpanLines}]

SpanConfigs ==
    {[total_chapters |-> Len(recs), chapters |-> recs] :
        recs \in UNION {[1..n -> SpanRecords] : n \in 1..2}}

----------------------------------------------------------------------------
(* clean_text harness: a content is drawn, clean_text is run on it, and    *)
(* may be run again on the content it wrote.                               *)

MaxCleanPieces == 3

MaxCleanRuns == 2

CleanPieces ==
    { <<"di", "3", "hui">>, <<" ">>, <<"\n">>, <<"\n", "\n", "\n">>, <<"a">>,
      JIBIE, ZUIHOUDENGLU \o <<"1">>, <<"[", "1", " ", "lou", "]">>,
      POSTED \o <<" ", "2", "0", "2", "0", "-", "0", "1", "-", "0", "1">>,
      <<"\r">>, <<"ctl">> }

RECURSIVE Concatenations(_)
\* the texts made of at most n pieces
Concatenations(n) ==
    IF n = 0 THEN {<<>>}
    ELSE LET shorter == Concatenations(n - 1) IN
         shorter \cup {t \o p : t \in shorter, p \in CleanPieces}

CleanTexts == Concatenations(MaxCleanPieces)

CleanIdle ==
    /\ cleanIn = <<>>
    /\ cleanOut = None
    /\ cleanPrev = None
    /\ cleanRuns = 0
    /\ cpc = "idle"

CleanText ==
    /\ cpc = "start"
    /\ cleanRuns < MaxCleanRuns
    /\ cleanOut' = Some(clean_text(cleanIn))
    /\ cleanRuns' = cleanRuns + 1
    /\ cpc' = "written"
    /\ UNCHANGED <<cleanIn, cleanPrev>>
    /\ CleanFrame

\* the written content becomes the input of the next run
RerunOnOutput ==
    /\ cpc = "written"
    /\ cleanRuns < MaxCleanRuns
    /\ cleanIn' = ValueOf(cleanOut)
    /\ cleanPrev' = cleanOut
    /\ cleanOut' = None
    /\ cpc' = "start"
    /\ UNCHANGED cleanRuns
    /\ CleanFrame

----------------------------------------------------------------------------
(* generate_epub.py: get_chapter_files, parse_front_matter, create_epub.   *)
(* A document is a text.  Of the YAML of a front matter and of the         *)
(* Markdown conversion only what decides whether a chapter is added is     *)
(* modelled.                                                               *)

MD == <<".", "m", "d">>

\* f"{i:02d}.md"
PaddedName(i) == (IF i < 10 THEN <<"0">> ELSE <<>>) \o Str(i) \o MD

\* f"{i}.md"
PlainName(i) == Str(i) \o MD

RECURSIVE MergeByNumber(_, _)

\* two lists ascending by number merged, the left entries first among equals
MergeByNumber(left, right) ==
    IF left = <<>> THEN right
    ELSE IF right = <<>> THEN left
    ELSE IF left[Len(left)][1] <= right[1][1] THEN left \o right
    ELSE IF left[1][1] <= right[1][1]
    THEN <<left[1]>> \o MergeByNumber(Tail(left), right)
    ELSE <<right[1]>> \o MergeByNumber(left, Tail(right))

RECURSIVE SortedRange(_, _, _)

\* sorted(list[lo-1:hi], key=lambda x: x[0]): a stable sort
SortedRange(list, lo, hi) ==
    IF lo > hi THEN <<>>
    ELSE IF lo = hi THEN <<list[lo]>>
    ELSE CHOOSE r \in
           {MergeByNumber(left, right) :
              left \in {SortedRange(list, lo, (lo + hi) \div 2)},
              right \in {SortedRange(list, (lo + hi) \div 2 + 1, hi)}} : TRUE

RECURSIVE FilesInRange(_, _, _)

\* what the iterations lo..hi of the loop of get_chapter_files append to
\* chapter_files: for each number the first of its two names that exists
FilesInRange(names, lo, hi) ==
    IF lo > hi THEN <<>>
    ELSE IF lo = hi
    THEN IF PaddedName(lo) \in names THEN << <<lo, PaddedName(lo)>> >>
         ELSE IF PlainName(lo) \in names THEN << <<lo, PlainName(lo)>> >>
         ELSE <<>>
    ELSE FilesInRange(names, lo, (lo + hi) \div 2)
         \o FilesInRange(names, (lo + hi) \div 2 + 1, hi)

get_chapter_files(dir) ==
    CHOOSE r \in {SortedRange(list, 1, Len(list)) :
                    list \in {FilesInRange(names, 1, 100) :
                                names \in {DOMAIN dir}}} : TRUE

DASHES == <<"-", "-", "-">>

\* parse_front_matter: the text between the first two --- and the stripped
\* text after them, or no front matter and the content as it is
parse_front_matter(content) ==
    CHOOSE r \in
      {IF ~StartsWith(content, 1, DASHES) \/ second = 0
       THEN [front_matter |-> None, body |-> content]
       ELSE [front_matter |-> Some(SubSeq(content, 4, second - 1)),
             body |-> Strip(SubSeq(content, second + 3, Len(content)))] :
         second \in {FirstPos({q \in 4..Len(content) :
                                  StartsWith(content, q, DASHES)})}} : TRUE

\* front_matter.get('title', ...) on what yaml.safe_load gives: a front
\* matter with a key: value line loads as a mapping, a blank one as None
\* (taken as {}), and any other text as a scalar, which has no get
TitleLookupRaises(front_matter) ==
    /\ front_matter # None
    /\ Strip(ValueOf(front_matter)) # <<>>
    /\ \A q \in 1..Len(ValueOf(front_matter)) : ValueOf(front_matter)[q] # ":"

QUESHI == <<"que", "shi1">>

is_missing_chapter_never(body) == FALSE

\* 'que shi' in body or 'ben zhang jie zai yuan wen dang zhong que shi' in
\* body: the second test implies the first
is_missing_chapter(body) ==
    \E q \in 1..Len(body) : StartsWith(body, q, QUESHI)

\* the body of the loop of create_epub on the content of a file (None: the
\* file cannot be read): "error" for an exception, "skip", or "add"
chapter_outcome(content) ==
    IF content = None THEN [outcome |-> "error", body |-> <<>>]
    ELSE CHOOSE r \in
           {IF TitleLookupRaises(p.front_matter)
            THEN [outcome |-> "error", body |-> <<>>]
            ELSE IF is_missing_chapter(p.body) \/ Strip(p.body) = <<>>
            THEN [outcome |-> "skip", body |-> <<>>]
            ELSE [outcome |-> "add", body |-> p.body] :
              p \in {parse_front_matter(ValueOf(content))}} : TRUE

----------------------------------------------------------------------------
(* Epub harness: a chapters directory is drawn and create_epub is run on   *)
(* it, the loop over the chapter files one file at a time.                 *)

\* the documents a chapter file can hold
FileKinds ==
    {"absent", "prose", "front", "placeholder", "blank", "unreadable",
     "scalar", "mention", "stub", "heading"}

\* process_chapters_batch.generate_markdown
generate_markdown_batch(chapter_num, formatted_content) ==
    <<"#", " ", "di">> \o Str(chapter_num) \o <<"zhang", "\n", "\n">>
    \o formatted_content

ProseDoc(n) == generate_markdown(n, <<"x", "fw.">>)

Document(n, kind) ==
    CASE kind = "prose" -> Some(ProseDoc(n))
      [] kind = "front" ->
           Some(DASHES \o <<"\n", "t", ":", " ", "x", "\n">> \o DASHES
                \o <<"\n">> \o ProseDoc(n))
      [] kind = "scalar" ->
           Some(DASHES \o <<"\n", "x", "\n">> \o DASHES \o <<"\n">>
                \o ProseDoc(n))
      [] kind = "placeholder" -> Some(generate_placeholder(n))
      [] kind = "blank" -> Some(<<"\n">>)
      [] kind = "mention" ->
           Some(generate_markdown(n, <<"x", "que", "shi1", "x", "fw.">>))
      [] kind = "stub" -> Some(generate_markdown(n, <<>>))
      [] kind = "heading" -> Some(generate_markdown_batch(n, <<>>))
      [] kind = "unreadable" -> None

\* the number a file name starts with
NumberOfName(name) == IntOf(SubSeq(name, 1, Len(name) - Len(MD)))

\* a directory: chapters 2..99 all prose or all absent, NN.md of chapters 1
\* and 100 of any kind, and 1.md beside 01.md
ChapterDir(others, k1, plain1, k100) ==
    [name \in (IF others THEN {PaddedName(i) : i \in 2..99} ELSE {})
              \cup (IF k1 = "absent" THEN {} ELSE {PaddedName(1)})
              \cup (IF plain1 = "absent" THEN {} ELSE {PlainName(1)})
              \cup (IF k100 = "absent" THEN {} ELSE {PaddedName(100)})
       |-> IF name = PaddedName(1) THEN Document(1, k1)
           ELSE IF name = PlainName(1) THEN Document(1, plain1)
           ELSE IF name = PaddedName(100) THEN Document(100, k100)
           ELSE Document(NumberOfName(name), "prose")]

ChapterDirs ==
    {ChapterDir(others, k1, plain1, k100) :
        others \in BOOLEAN, k1 \in FileKinds,
        plain1 \in {"absent", "prose", "placeholder"}, k100 \in FileKinds}

EpubIdle ==
    /\ chapterDir = <<>>
    /\ epc = "idle"
    /\ chapter_files = <<>>
    /\ fileIdx = 0
    /\ book = <<>>
    /\ epubReturn = None

\* create_epub: the chapter files are listed
GetChapterFiles ==
    /\ epc = "start"
    /\ \E found \in {get_chapter_files(chapterDir)} :
          /\ found # <<>>
          /\ chapter_files' = found
    /\ epc' = "loop"
    /\ UNCHANGED <<chapterDir, fileIdx, book, epubReturn>>
    /\ EpubFrame

\* create_epub: no chapter file is found
NoChapterFiles ==
    /\ epc = "start"
    /\ get_chapter_files(chapterDir) = <<>>
    /\ epubReturn' = Some(FALSE)
    /\ epc' = "done"
    /\ UNCHANGED <<chapterDir, chapter_files, fileIdx, book>>
    /\ EpubFrame

\* the outcome of the loop body on the next chapter file
NextOutcome == chapter_outcome(chapterDir[chapter_files[fileIdx + 1][2]])

\* the loop: the chapter is added to the book
AddChapter ==
    /\ epc = "loop"
    /\ fileIdx < Len(chapter_files)
    /\ \E r \in {NextOutcome} :
          /\ r.outcome = "add"
          /\ book' = Append(book, [number |-> chapter_files[fileIdx + 1][1],
                                   body |-> r.body])
    /\ fileIdx' = fileIdx + 1
    /\ UNCHANGED <<chapterDir, epc, chapter_files, epubReturn>>
    /\ EpubFrame

\* the loop: a missing or empty chapter is skipped
SkipChapter ==
    /\ epc = "loop"
    /\ fileIdx < Len(chapter_files)
    /\ NextOutcome.outcome = "skip"
    /\ fileIdx' = fileIdx + 1
    /\ UNCHANGED <<chapterDir, epc, chapter_files, book, epubReturn>>
    /\ EpubFrame

\* the loop: an exception is caught and the chapter left out
ChapterError ==
    /\ epc = "loop"
    /\ fileIdx < Len(chapter_files)
    /\ NextOutcome.outcome = "error"
    /\ fileIdx' = fileIdx + 1
    /\ UNCHANGED <<chapterDir, epc, chapter_files, book, epubReturn>>
    /\ EpubFrame

\* after the loop: the book is written
WriteEpub ==
    /\ epc = "loop"
    /\ fileIdx = Len(chapter_files)
    /\ book # <<>>
    /\ epubReturn' = Some(TRUE)
    /\ epc' = "done"
    /\ UNCHANGED <<chapterDir, chapter_files, fileIdx, book>>
    /\ EpubFrame

\* after the loop: no chapter was added
NoValidChapters ==
    /\ epc = "loop"
    /\ fileIdx = Len(chapter_files)
    /\ book = <<>>
    /\ epubReturn' = Some(FALSE)
    /\ epc' = "done"
    /\ UNCHANGED <<chapterDir, chapter_files, fileIdx, book>>
    /\ EpubFrame

----------------------------------------------------------------------------
(* process_chapter.py: init_progress.  process_chapters_batch.py:          *)
(* process_chapter, process_chapters_range.  process_chapters_reusable.py: *)
(* process_batch.  The keys of the ledger are the chapter numbers (str is  *)
(* one to one); a time stamp is "now".  A raw file is given by its kind.   *)

PendingEntry ==
    [status |-> "pending", created_at |-> None, updated_at |-> None,
     notes |-> ""]

init_entries_allPending(found_numbers) == [num \in 1..100 |-> PendingEntry]

\* init_progress: the ledger it saves
init_entries(found_numbers) ==
    [num \in 1..100 |->
        IF num \in found_numbers THEN PendingEntry
        ELSE [PendingEntry EXCEPT !.status = "skipped",
                                  !.notes = "missing in the source"]]

\* the kind of the raw file of chapter n
RawKindOf(kinds, n) == IF n \in DOMAIN kinds THEN kinds[n] ELSE "absent"

\* process_chapters_batch.process_chapter: the ledger it leaves, whether it
\* wrote the Markdown file, and what it returns ("raise": an exception)
process_chapter_batch(progress_file, chapter_num, kind, writable) ==
    IF progress_file = None
    THEN [ledger |-> progress_file, wrote |-> FALSE, ret |-> "raise"]
    ELSE CHOOSE r \in
      {IF chapter_num \notin DOMAIN progress
       THEN [ledger |-> progress_file, wrote |-> FALSE, ret |-> "raise"]
       ELSE IF progress[chapter_num].status = "completed"
       THEN [ledger |-> progress_file, wrote |-> FALSE, ret |-> "True"]
       ELSE CHOOSE r2 \in
         {IF kind = "unreadable"
          THEN [ledger |-> Some(processing), wrote |-> FALSE,
                ret |-> "raise"]
          ELSE IF kind \in {"absent", "empty", "placeholder"}
          THEN [ledger |->
                  Some([processing EXCEPT
                          ![chapter_num].status = "skipped",
                          ![chapter_num].notes = "empty or missing"]),
                wrote |-> FALSE, ret |-> "False"]
          ELSE IF ~writable
          THEN [ledger |-> Some(processing), wrote |-> FALSE,
                ret |-> "raise"]
          ELSE [ledger |->
                  Some([processing EXCEPT
                          ![chapter_num].status = "completed",
                          ![chapter_num].created_at = Some("now"),
                          ![chapter_num].updated_at = Some("now"),
                          ![chapter_num].notes = "done"]),
                wrote |-> TRUE, ret |-> "True"] :
            processing \in
              {[progress EXCEPT ![chapter_num].status = "processing",
                                ![chapter_num].updated_at = Some("now")]}}
         : TRUE :
         progress \in {ValueOf(progress_file)}} : TRUE

\* process_chapter_sop by the kind of the raw file: whether it wrote a
\* file and what it returns
process_chapter_sop(kind, writable) ==
    IF kind \in {"absent", "empty", "unreadable"}
    THEN [wrote |-> FALSE, ret |-> "False"]
    ELSE IF ~writable THEN [wrote |-> FALSE, ret |-> "raise"]
    ELSE [wrote |-> TRUE, ret |-> "True"]

\* generate_placeholder as process_batch calls it
write_placeholder(writable) ==
    IF ~writable THEN [wrote |-> FALSE, ret |-> "raise"]
    ELSE [wrote |-> TRUE, ret |-> "True"]

ZeroCounts == [success |-> 0, skip |-> 0, placeholder |-> 0, fail |-> 0]

----------------------------------------------------------------------------
(* Ledger harness: init_progress is run, then one of the two batch loops   *)
(* over a range, one chapter at a time.                                    *)

IndexFiles == {None, Some({}), Some({1, 2}), Some({2, 100, 101})}

\* no ledger, or the ledger of an earlier run with chapter 1 completed
ExistingLedgers ==
    {None,
     Some([init_entries({1, 2, 3}) EXCEPT
              ![1] = [status |-> "completed", created_at |-> Some("now"),
                      updated_at |-> Some("now"), notes |-> "done"]])}

RawKinds == [{1, 2} -> {"absent", "prose", "placeholder", "unreadable"}]

Ranges == {<<1, 2>>, <<2, 3>>, <<100, 101>>}

MissingLists == {{}, {2}}

LedgerIdle ==
    /\ indexFile = None
    /\ ledger = None
    /\ lpc = "idle"
    /\ runner = "none"
    /\ batchStart = 0
    /\ batchNum = 0
    /\ batchEnd = 0
    /\ missing_chapters = {}
    /\ rawKind = <<>>
    /\ resultWritable = FALSE
    /\ counts = ZeroCounts
    /\ attempted = {}
    /\ written = {}

\* init_progress
InitProgress ==
    /\ lpc = "start"
    /\ ledger' = IF ledger # None THEN ledger
                 ELSE IF indexFile = None THEN None
                 ELSE Some(init_entries(ValueOf(indexFile)))
    /\ lpc' = "ready"
    /\ UNCHANGED <<indexFile, runner, batchStart, batchNum, batchEnd,
                   missing_chapters, rawKind, resultWritable, counts,
                   attempted, written>>
    /\ LedgerFrame

\* process_chapters_range(start, end) is called
StartRange ==
    /\ lpc = "ready"
    /\ \E r \in Ranges :
          /\ batchStart' = r[1]
          /\ batchNum' = r[1]
          /\ batchEnd' = r[2]
    /\ runner' = "range"
    /\ lpc' = "batch"
    /\ counts' = ZeroCounts
    /\ UNCHANGED <<indexFile, ledger, missing_chapters, rawKind,
                   resultWritable, attempted, written>>
    /\ LedgerFrame

\* process_batch(start_chapter, end_chapter, missing_chapters) is called
StartBatch ==
    /\ lpc = "ready"
    /\ \E r \in Ranges :
          /\ batchStart' = r[1]
          /\ batchNum' = r[1]
          /\ batchEnd' = r[2]
    /\ missing_chapters' \in MissingLists
    /\ runner' = "batch"
    /\ lpc' = "batch"
    /\ counts' = ZeroCounts
    /\ UNCHANGED <<indexFile, ledger, rawKind, resultWritable, attempted,
                   written>>
    /\ LedgerFrame

\* one iteration of the loop of process_chapters_range
RangeChapter ==
    /\ lpc = "batch"
    /\ runner = "range"
    /\ batchNum <= batchEnd
    /\ \E r \in {process_chapter_batch(ledger, batchNum,
                                       RawKindOf(rawKind, batchNum),
                                       resultWritable)} :
          /\ ledger' = r.ledger
          /\ written' = IF r.wrote THEN written \cup {batchNum} ELSE written
          /\ lpc' = IF r.ret = "raise" THEN "aborted" ELSE "batch"
          /\ batchNum' = IF r.ret = "raise" THEN batchNum ELSE batchNum + 1
          /\ counts' =
               IF r.ret = "True"
               THEN [counts EXCEPT !.success = counts.success + 1]
               ELSE IF r.ret = "False"
               THEN [counts EXCEPT !.skip = counts.skip + 1]
               ELSE counts
    /\ attempted' = attempted \cup {batchNum}
    /\ UNCHANGED <<indexFile, runner, batchStart, batchEnd,
                   missing_chapters, rawKind, resultWritable>>
    /\ LedgerFrame

\* one iteration of the loop of process_batch
BatchChapter ==
    /\ lpc = "batch"
    /\ runner = "batch"
    /\ batchNum <= batchEnd
    /\ \E r \in {IF batchNum \in missing_chapters
                 THEN write_placeholder(resultWritable)
                 ELSE process_chapter_sop(RawKindOf(rawKind, batchNum),
                                          resultWritable)} :
          /\ written' = IF r.wrote THEN written \cup {batchNum} ELSE written
          /\ lpc' = IF r.ret = "raise" THEN "aborted" ELSE "batch"
          /\ batchNum' = IF r.ret = "raise" THEN batchNum ELSE batchNum + 1
          /\ counts' =
               IF r.ret = "raise" THEN counts
               ELSE IF batchNum \in missing_chapters
               THEN [counts EXCEPT !.placeholder = counts.placeholder + 1]
               ELSE IF r.ret = "True"
               THEN [counts EXCEPT !.success = counts.success + 1]
               ELSE [counts EXCEPT !.fail = counts.fail + 1]
    /\ attempted' = attempted \cup {batchNum}
    /\ UNCHANGED <<indexFile, ledger, runner, batchStart, batchEnd,
                   missing_chapters, rawKind, resultWritable>>
    /\ LedgerFrame

\* the loop is over and the summary printed
FinishBatch ==
    /\ lpc = "batch"
    /\ batchNum > batchEnd
    /\ lpc' = "done"
    /\ UNCHANGED <<indexFile, ledger, runner, batchStart, batchNum,
                   batchEnd, missing_chapters, rawKind, resultWritable,
                   counts, attempted, written>>
    /\ LedgerFrame

----------------------------------------------------------------------------
(* process_chapter.py: process_chapter, the 'next' command of main.        *)
(* process_chapters_batch.py: process_chapter.  An invocation loads the    *)
(* ledger, marks its chapter as processing and saves, then saves the       *)
(* outcome: three steps, each with the whole ledger it loaded.             *)

\* process_chapter.load_progress: {} when the file is missing
load_progress(file) == IF file = None THEN <<>> ELSE ValueOf(file)

\* a slip: the ledger is not written
save_progress_dropped(file, progress) == file

\* save_progress: the file holds the whole of progress
save_progress(file, progress) == Some(progress)

\* a slip: a completed chapter is processed again
already_completed_never(progress, chapter_key) == FALSE

\* progress.get(chapter_key, {}).get('status') == 'completed'
already_completed(progress, chapter_key) ==
    /\ chapter_key \in DOMAIN progress
    /\ progress[chapter_key].status = "completed"

\* status 'processing' with a new updated_at
mark_processing(progress, chapter_key) ==
    [progress EXCEPT ![chapter_key].status = "processing",
                     ![chapter_key].updated_at = Some("now")]

\* batch: the content is empty or a placeholder
mark_skipped(progress, chapter_key) ==
    [progress EXCEPT ![chapter_key].status = "skipped",
                     ![chapter_key].notes = "empty or missing"]

\* batch: the Markdown file is written
mark_completed_batch(progress, chapter_key) ==
    [progress EXCEPT ![chapter_key].status = "completed",
                     ![chapter_key].created_at = Some("now"),
                     ![chapter_key].updated_at = Some("now"),
                     ![chapter_key].notes = "done"]

\* a slip: a status that is not one of the five
mark_error_failed(progress, chapter_key) ==
    [progress EXCEPT ![chapter_key].status = "failed",
                     ![chapter_key].notes = "unreadable"]

\* interactive: the content cannot be read
mark_error(progress, chapter_key) ==
    [progress EXCEPT ![chapter_key].status = "error",
                     ![chapter_key].notes = "unreadable"]

\* interactive: the user confirms the chapter
mark_completed(progress, chapter_key) ==
    [progress EXCEPT ![chapter_key].status = "completed",
                     ![chapter_key].updated_at = Some("now"),
                     ![chapter_key].created_at =
                        IF progress[chapter_key].created_at = None
                        THEN Some("now")
                        ELSE progress[chapter_key].created_at]

\* a slip: the last pending chapter
next_pending_highest(progress) ==
    LastPos({num \in 1..100 :
                /\ num \in DOMAIN progress
                /\ progress[num].status = "pending"})

\* the 'next' command: the first num of range(1, 101) that is pending, or 0
next_pending(progress) ==
    FirstPos({num \in 1..100 :
                 /\ num \in DOMAIN progress
                 /\ progress[num].status = "pending"})

IdleWorker ==
    [pc |-> "idle", kind |-> "none", via_next |-> FALSE, chapter_num |-> 0,
     progress |-> None, ret |-> "none", wrote |-> FALSE, saved |-> None]

\* the invocation has returned ret ("raise": with an exception)
Returned(w, ret) == [w EXCEPT !.pc = "done", !.ret = ret]

\* process_chapter up to its first save: the ledger is loaded, and the
\* invocation returns for a chapter without an entry (interactive), for a
\* completed chapter (batch, and interactive unless the user asks to
\* process it again) and when the ledger cannot be loaded (batch)
load_step(w, file, response) ==
    IF w.kind = "batch"
    THEN IF file = None THEN Returned(w, "raise")
         ELSE IF already_completed(ValueOf(file), w.chapter_num)
         THEN Returned(w, "True")
         ELSE [w EXCEPT !.pc = "loaded", !.progress = file]
    ELSE \* interactive
         IF w.chapter_num \notin DOMAIN load_progress(file)
         THEN Returned(w, "False")
         ELSE IF load_progress(file)[w.chapter_num].status = "completed"
                 /\ response # "y"
         THEN Returned(w, "False")
         ELSE [w EXCEPT !.pc = "loaded",
                        !.progress = Some(load_progress(file))]

\* the chapter is marked as processing in the loaded ledger, which is
\* saved; a KeyError when the chapter has no entry
mark_step(w, file) ==
    IF w.chapter_num \notin DOMAIN ValueOf(w.progress)
    THEN [worker |-> Returned(w, "raise"), ledger |-> file]
    ELSE CHOOSE r \in
           {[worker |-> [w EXCEPT !.pc = "marked", !.progress = Some(marked)],
             ledger |-> save_progress(file, marked)] :
              marked \in {mark_processing(ValueOf(w.progress),
                                          w.chapter_num)}} : TRUE

\* the invocation has saved final as its outcome and returns ret
Saved(w, file, final, ret, wrote) ==
    [worker |-> [w EXCEPT !.pc = "done", !.ret = ret, !.wrote = wrote,
                          !.progress = Some(final),
                          !.saved = Some(final[w.chapter_num])],
     ledger |-> save_progress(file, final)]

\* process_chapter after its first save: the raw file is read, the
\* Markdown file written and the outcome saved
finish_step(w, file, kind, writable, response) ==
    IF w.kind = "batch"
    THEN IF kind = "unreadable"
         THEN [worker |-> Returned(w, "raise"), ledger |-> file]
         ELSE IF kind \in {"absent", "empty", "placeholder"}
         THEN Saved(w, file,
                    mark_skipped(ValueOf(w.progress), w.chapter_num),
                    "False", FALSE)
         ELSE IF ~writable
         THEN [worker |-> Returned(w, "raise"), ledger |-> file]
         ELSE Saved(w, file,
                    mark_completed_batch(ValueOf(w.progress), w.chapter_num),
                    "True", TRUE)
    ELSE \* interactive
         IF kind \in {"absent", "empty", "unreadable"}
         THEN Saved(w, file, mark_error(ValueOf(w.progress), w.chapter_num),
                    "False", FALSE)
         ELSE IF ~writable
         THEN [worker |-> Returned(w, "raise"), ledger |-> file]
         ELSE IF response = "y"
         THEN Saved(w, file,
                    mark_completed(ValueOf(w.progress), w.chapter_num),
                    "True", TRUE)
         ELSE [worker |-> [w EXCEPT !.pc = "done", !.ret = "True",
                                    !.wrote = TRUE],
               ledger |-> file]

----------------------------------------------------------------------------
(* Call harness: on an initialised ledger, process_chapter is called one   *)
(* invocation after the other (serial), directly or by the 'next' command, *)
(* or for two chapters by two processes at once (concurrent).              *)

Procs == {1, 2}

\* the chapters process_chapter is called for directly
CallChapters == {1, 2, 101}

FullIndex == Some(1..100)

CallIndexes == {Some({1, 2}), Some({2, 100, 101}), FullIndex}

\* on the full index only 'next' commands are run
DirectCalls == indexFile # FullIndex

\* what the user answers to the prompts about chapter_num
AnswersFor(chapter_num) ==
    IF chapter_num \in {1, 2} THEN {"y", "n"} ELSE {"y"}

\* the ledger variables the invocations leave alone
ledgerRest ==
    <<indexFile, lpc, runner, batchStart, batchNum, batchEnd,
      missing_chapters, rawKind, resultWritable, counts, attempted>>

CallIdle ==
    /\ worker = [p \in Procs |-> IdleWorker]
    /\ overlapped = FALSE
    /\ nextCount = 0

\* the invocation of process p is running
Active(p) == worker[p].pc \in {"called", "loaded", "marked"}

\* process p calls process_chapter(chapter_num)
StartCall(p, kind, chapter_num, via_next) ==
    worker' = [worker EXCEPT ![p] =
                 [IdleWorker EXCEPT !.pc = "called", !.kind = kind,
                                    !.via_next = via_next,
                                    !.chapter_num = chapter_num]]

\* process_chapters_batch.process_chapter is called, no other running
SerialBatch ==
    /\ lpc = "calls"
    /\ runner = "serial"
    /\ DirectCalls
    /\ ~Active(1)
    /\ \E chapter_num \in CallChapters :
          StartCall(1, "batch", chapter_num, FALSE)
    /\ UNCHANGED <<overlapped, nextCount, ledgerVars>>
    /\ CallFrame

\* process_chapter.py <number>: process_chapter is called, no other running
SerialInteractive ==
    /\ lpc = "calls"
    /\ runner = "serial"
    /\ DirectCalls
    /\ ~Active(1)
    /\ \E chapter_num \in CallChapters \cap (1..100) :
          StartCall(1, "interactive", chapter_num, FALSE)
    /\ UNCHANGED <<overlapped, nextCount, ledgerVars>>
    /\ CallFrame

\* process_chapter.py next: the first pending chapter is looked up and
\* process_chapter called for it, or the end is reported
NextCommand ==
    /\ lpc = "calls"
    /\ runner = "serial"
    /\ ~Active(1)
    /\ \E progress \in {load_progress(ledger)} :
          IF DOMAIN progress = {}
          THEN /\ worker' = [worker EXCEPT ![1] =
                               [Returned(IdleWorker, "no_ledger")
                                   EXCEPT !.via_next = TRUE]]
               /\ UNCHANGED nextCount
          ELSE \E num \in {next_pending(progress)} :
                 IF num = 0
                 THEN /\ worker' = [worker EXCEPT ![1] =
                                      [Returned(IdleWorker, "all_done")
                                          EXCEPT !.via_next = TRUE]]
                      /\ UNCHANGED nextCount
                 ELSE /\ StartCall(1, "interactive", num, TRUE)
                      /\ nextCount' = nextCount + 1
    /\ UNCHANGED <<overlapped, ledgerVars>>
    /\ CallFrame

\* process p calls the batch process_chapter for chapter p, whatever the
\* other process is doing
ConcurrentBatch ==
    /\ lpc = "calls"
    /\ runner = "concurrent"
    /\ \E p \in Procs :
          /\ worker[p].pc = "idle"
          /\ StartCall(p, "batch", p, FALSE)
          /\ overlapped' = (overlapped \/ \E q \in Procs \ {p} : Active(q))
    /\ UNCHANGED <<nextCount, ledgerVars>>
    /\ CallFrame

\* an invocation loads the ledger
LoadLedger ==
    /\ lpc = "calls"
    /\ \E p \in Procs :
          /\ worker[p].pc = "called"
          /\ \E response \in AnswersFor(worker[p].chapter_num) :
                worker' = [worker EXCEPT ![p] =
                             load_step(worker[p], ledger, response)]
    /\ UNCHANGED <<overlapped, nextCount, ledgerVars>>
    /\ CallFrame

\* an invocation marks its chapter as processing and saves
MarkProcessing ==
    /\ lpc = "calls"
    /\ \E p \in Procs :
          /\ worker[p].pc = "loaded"
          /\ \E r \in {mark_step(worker[p], ledger)} :
                /\ worker' = [worker EXCEPT ![p] = r.worker]
                /\ ledger' = r.ledger
    /\ UNCHANGED <<overlapped, nextCount, ledgerRest, written>>
    /\ CallFrame

\* an invocation reads the raw file, writes the Markdown file and saves
FinishCall ==
    /\ lpc = "calls"
    /\ \E p \in Procs :
          /\ worker[p].pc = "marked"
          /\ \E response \in AnswersFor(worker[p].chapter_num) :
                \E r \in {finish_step(worker[p], ledger,
                                      RawKindOf(rawKind,
                                                worker[p].chapter_num),
                                      resultWritable, response)} :
                   /\ worker' = [worker EXCEPT ![p] = r.worker]
                   /\ ledger' = r.ledger
                   /\ written' = IF r.worker.wrote
                                 THEN written \cup {worker[p].chapter_num}
                                 ELSE written
    /\ UNCHANGED <<overlapped, nextCount, ledgerRest>>
    /\ CallFrame

----------------------------------------------------------------------------
(* Specifications, one per component.                                      *)

InitNumeral ==
    /\ token \in Tokens
    /\ parsed = None
    /\ parsedTable = None
    /\ npc = "start"
    /\ CleanIdle
    /\ PipeIdle
    /\ ReflowIdle
    /\ EpubIdle
    /\ LedgerIdle
    /\ CallIdle

NextNumeral == ParseToken

SpecNumeral == InitNumeral /\ [][NextNumeral]_vars

InitClean ==
    /\ cleanIn \in CleanTexts
    /\ cleanOut = None
    /\ cleanPrev = None
    /\ cleanRuns = 0
    /\ cpc = "start"
    /\ NumeralIdle
    /\ PipeIdle
    /\ ReflowIdle
    /\ EpubIdle
    /\ LedgerIdle
    /\ CallIdle

NextClean == CleanText \/ RerunOnOutput

SpecClean == InitClean /\ [][NextClean]_vars

InitPipeline ==
    /\ corpus \in Corpora
    /\ ppc = "scan"
    /\ lineNo = 1
    /\ chapters = <<>>
    /\ stats = None
    /\ config = None
    /\ recIdx = 0
    /\ extracted = None
    /\ files = <<>>
    /\ extracted_count = 0
    /\ failed = <<>>
    /\ NumeralIdle
    /\ CleanIdle
    /\ ReflowIdle
    /\ EpubIdle
    /\ LedgerIdle
    /\ CallIdle

NextPipeline ==
    \/ ScanLine
    \/ FinishScan
    \/ NoChapters
    \/ GenerateConfig
    \/ StartExtract
    \/ ExtractRecord
    \/ WritePlaceholders

SpecPipeline == InitPipeline /\ [][NextPipeline]_vars

\* extract_chapters.main on files that analyze_chapters did not write
InitExtract ==
    /\ corpus \in ExtractCorpora
    /\ ppc = "configured"
    /\ lineNo = 0
    /\ chapters = <<>>
    /\ stats = None
    /\ config \in {Some(c) : c \in SpanConfigs}
    /\ recIdx = 0
    /\ extracted = None
    /\ files = <<>>
    /\ extracted_count = 0
    /\ failed = <<>>
    /\ NumeralIdle
    /\ CleanIdle
    /\ ReflowIdle
    /\ EpubIdle
    /\ LedgerIdle
    /\ CallIdle

NextExtract == StartExtract \/ ExtractRecord \/ WritePlaceholders

SpecExtract == InitExtract /\ [][NextExtract]_vars

\* the raw file of chapter 3 is any of RawTexts or absent; the raw file of
\* any chapter may be the placeholder extract_all_chapters writes for it
InitReflow ==
    /\ \/ chapterNum = 3 /\ raw \in {None} \cup {Some(t) : t \in RawTexts}
       \/ chapterNum \in 1..100 /\ raw = Some(placeholder_content(chapterNum))
    /\ rpc = "start"
    /\ rawLines = <<>>
    /\ lineIdx = 0
    /\ filtered = <<>>
    /\ start_processing = FALSE
    /\ skip_next_chapter = FALSE
    /\ parts = <<>>
    /\ partIdx = 0
    /\ current_para = <<>>
    /\ paragraphs = <<>>
    /\ formatted = None
    /\ resultFile = None
    /\ sopReturn = None
    /\ NumeralIdle
    /\ CleanIdle
    /\ PipeIdle
    /\ EpubIdle
    /\ LedgerIdle
    /\ CallIdle

NextReflow ==
    \/ ChapterEmpty
    \/ ForumStub
    \/ StartFormat
    \/ FilterStep
    \/ SplitText
    \/ AccumulateStep
    \/ FinishChapter

SpecReflow == InitReflow /\ [][NextReflow]_vars

\* a chapters directory is drawn and create_epub starts
InitEpub ==
    /\ chapterDir \in ChapterDirs
    /\ epc = "start"
    /\ chapter_files = <<>>
    /\ fileIdx = 0
    /\ book = <<>>
    /\ epubReturn = None
    /\ NumeralIdle
    /\ CleanIdle
    /\ PipeIdle
    /\ ReflowIdle
    /\ LedgerIdle
    /\ CallIdle

NextEpub ==
    \/ GetChapterFiles
    \/ NoChapterFiles
    \/ AddChapter
    \/ SkipChapter
    \/ ChapterError
    \/ WriteEpub
    \/ NoValidChapters

SpecEpub == InitEpub /\ [][NextEpub]_vars

\* an index, a ledger and raw files are drawn; init is run, then a batch
InitLedger ==
    /\ indexFile \in IndexFiles
    /\ ledger \in ExistingLedgers
    /\ lpc = "start"
    /\ runner = "none"
    /\ batchStart = 0
    /\ batchNum = 0
    /\ batchEnd = 0
    /\ missing_chapters = {}
    /\ rawKind \in RawKinds
    /\ resultWritable \in BOOLEAN
    /\ counts = ZeroCounts
    /\ attempted = {}
    /\ written = {}
    /\ NumeralIdle
    /\ CleanIdle
    /\ PipeIdle
    /\ ReflowIdle
    /\ EpubIdle
    /\ CallIdle

NextLedger ==
    \/ InitProgress
    \/ StartRange
    \/ StartBatch
    \/ RangeChapter
    \/ BatchChapter
    \/ FinishBatch

SpecLedger == InitLedger /\ [][NextLedger]_vars

\* the components side by side
\* the ledger as init_progress made it from an index
InitCalls ==
    /\ indexFile \in CallIndexes
    /\ ledger = Some(init_entries(ValueOf(indexFile)))
    /\ lpc = "calls"
    /\ batchStart = 0
    /\ batchNum = 0
    /\ batchEnd = 0
    /\ missing_chapters = {}
    /\ rawKind \in RawKinds
    /\ resultWritable \in BOOLEAN
    /\ counts = ZeroCounts
    /\ attempted = {}
    /\ written = {}
    /\ CallIdle
    /\ NumeralIdle
    /\ CleanIdle
    /\ PipeIdle
    /\ ReflowIdle
    /\ EpubIdle

InitSerial == InitCalls /\ runner = "serial"

NextSerial ==
    \/ SerialBatch
    \/ SerialInteractive
    \/ NextCommand
    \/ LoadLedger
    \/ MarkProcessing
    \/ FinishCall

SpecSerial == InitSerial /\ [][NextSerial]_vars

InitConcurrent == InitCalls /\ runner = "concurrent" /\ DirectCalls

NextConcurrent ==
    ConcurrentBatch \/ LoadLedger \/ MarkProcessing \/ FinishCall

SpecConcurrent == InitConcurrent /\ [][NextConcurrent]_vars

Init ==
    InitNumeral \/ InitClean \/ InitPipeline \/ InitExtract \/ InitReflow
    \/ InitEpub \/ InitLedger \/ InitSerial \/ InitConcurrent

Next ==
    NextNumeral \/ NextClean \/ NextPipeline \/ NextReflow \/ NextEpub
    \/ NextLedger \/ NextSerial \/ NextConcurrent

Spec == Init /\ [][Next]_vars

----------------------------------------------------------------------------
(* Claims about the numeral parser.                                        *)

ChineseDigitNames ==
    <<"ling", "yi", "er", "san", "si", "wu", "liu", "qi", "ba", "jiu">>

\* the standard Chinese rendering of n in 1..100
Render(n) ==
    IF n = 100 THEN <<"yi", "bai">>
    ELSE IF n < 10 THEN <<ChineseDigitNames[n + 1]>>
    ELSE IF n = 10 THEN <<"shi">>
    ELSE IF n < 20 THEN <<"shi", ChineseDigitNames[n - 10 + 1]>>
    ELSE IF n % 10 = 0 THEN <<ChineseDigitNames[(n \div 10) + 1], "shi">>
    ELSE <<ChineseDigitNames[(n \div 10) + 1], "shi",
           ChineseDigitNames[(n % 10) + 1]>>

\* C1: for every n in 1..100, both chinese_to_arabic implementations map the
\* standard Chinese rendering of n to n.
C1_RoundTrip ==
    npc = "done" =>
        \A n \in 1..100 :
            token = Render(n) => parsed = Some(n) /\ parsedTable = Some(n)

C1_Witness ==
    /\ npc = "done"
    /\ token = Render(21)
    /\ parsed = Some(21)
    /\ parsedTable = Some(21)

ChineseDigitSet == {ChineseDigitNames[k] : k \in 1..10}

\* the shapes the parser supports: yi-bai, digit+shi, shi+digit,
\* digit+shi+digit, a single digit or shi
SupportedShape(t) ==
    \/ t = <<"yi", "bai">>
    \/ Len(t) = 2 /\ t[1] \in ChineseDigitSet /\ t[2] = "shi"
    \/ Len(t) = 2 /\ t[1] = "shi" /\ t[2] \in ChineseDigitSet
    \/ Len(t) = 3 /\ t[1] \in ChineseDigitSet /\ t[2] = "shi"
       /\ t[3] \in ChineseDigitSet
    \/ Len(t) = 1 /\ (t[1] \in ChineseDigitSet \/ t[1] = "shi")

\* C2: every token of 1 to 3 numeral characters that is not of a supported
\* shape is unresolved (None) under analyze_chapters.chinese_to_arabic.
C2_UnsupportedIsNone ==
    (npc = "done" /\ ~SupportedShape(token)) => parsed = None

----------------------------------------------------------------------------
(* Claims about clean_text.                                                *)

\* C3: clean_text is idempotent: run on the content it wrote, it writes the
\* same content again.
C3_Idempotent ==
    (cpc = "written" /\ cleanPrev # None) => cleanOut = cleanPrev

----------------------------------------------------------------------------
(* Claims about scanning, the index and the chapter files.                 *)

Records == ValueOf(config).chapters

\* the corpus lines a .. b as one text
LinesText(a, b) == JoinLines(SubSeq(corpus, a, b))

\* what extract_chapter_content gives for record i
SliceOfRecord(i) ==
    extract_chapter_content(corpus, Records[i].start_line, Records[i].end_line)

\* the last line of record r, with "end of file" resolved
LastLineOf(r) ==
    IF r.end_line = None THEN Len(corpus) ELSE ValueOf(r.end_line)

\* C4: for a record with 1 <= startLine <= endLine <= number of lines (or
\* endLine "end of file"), the extracted content is exactly the corpus lines
\* startLine .. endLine inclusive; startLine = endLine gives that one line.
C4_InclusiveSlice ==
    (ppc \in {"extract", "done"} /\ recIdx > 1) =>
        LET r == Records[recIdx - 1] IN
        (1 <= r.start_line /\ r.start_line <= LastLineOf(r)
         /\ LastLineOf(r) <= Len(corpus))
        => extracted = Some(LinesText(r.start_line, LastLineOf(r)))

RECURSIVE ConcatSlices(_)
\* the files of records 1 .. k, concatenated in that order
ConcatSlices(k) ==
    IF k = 0 THEN <<>>
    ELSE ConcatSlices(k - 1)
         \o (IF Records[k].number \in DOMAIN files
             THEN files[Records[k].number] ELSE <<>>)

\* C5: when the markers carry distinct numbers that ascend with the line,
\* the raw slices concatenated in chapter-number order are the corpus from
\* the first marker line to the end of the file, nothing dropped or doubled.
C5_RoundTrip ==
    (/\ ppc = "done"
     /\ \A i \in 1..(Len(Records) - 1) :
            Records[i].number < Records[i + 1].number)
    => ConcatSlices(Len(Records))
       = LinesText(Records[1].start_line, Len(corpus))

\* C6: when several records share a number, the file of that number holds
\* the slice of the first of them; later ones do not change it.
C6_FirstRecordWins ==
    ppc = "done" =>
        \A i \in 1..Len(Records) :
            (/\ \A j \in 1..(i - 1) : Records[j].number # Records[i].number
             /\ \E j \in (i + 1)..Len(Records) :
                    Records[j].number = Records[i].number
             /\ SliceOfRecord(i) # None)
            => /\ Records[i].number \in DOMAIN files
               /\ files[Records[i].number] = ValueOf(SliceOfRecord(i))

\* the placeholder text of chapter n, as the claim spells it
MissingText(n) ==
    <<"ben", "zhang", "jie", "fw(", "di">>
    \o (IF n < 10 THEN <<ArabicDigits[n + 1]>>
        ELSE IF n < 100
        THEN <<ArabicDigits[(n \div 10) + 1], ArabicDigits[(n % 10) + 1]>>
        ELSE <<"1", "0", "0">>)
    \o <<"zhang", "fw)", "zai", "yuan", "wen", "dang", "zhong", "que",
         "shi1", "fw.", "\n">>

RecordNumbers == {Records[i].number : i \in 1..Len(Records)}

\* C7: after extract_all_chapters, every n in 1..100 without a record has
\* exactly the placeholder text as its file, and the file of an n with a
\* record is a slice of one of its records, never a placeholder.
C7_Placeholders ==
    ppc = "done" =>
        \A n \in 1..100 :
            IF n \notin RecordNumbers
            THEN n \in DOMAIN files /\ files[n] = MissingText(n)
            ELSE n \in DOMAIN files =>
                    /\ files[n] # MissingText(n)
                    /\ \E i \in 1..Len(Records) :
                          /\ Records[i].number = n
                          /\ SliceOfRecord(i) = Some(files[n])

C7_Witness ==
    /\ ppc = "done"
    /\ 17 \in DOMAIN files
    /\ files[17] = MissingText(17)
    /\ 1 \in RecordNumbers
    /\ 1 \in DOMAIN files
    /\ files[1] # MissingText(1)

\* the first pattern family with a match in the line, or 0
FirstFamily(line) ==
    FirstPos({k \in 1..Len(patterns) :
                 Matches(line, patterns[k].cls, patterns[k].unit) # <<>>})

\* C8: a line gives at most one marker, and a recorded marker is the first
\* (leftmost) match of the first pattern family that matches the line.
C8_FirstMatchOfFirstFamily ==
    \A k \in 1..Len(corpus) :
        LET ms == {i \in 1..Len(chapters) : chapters[i].line = k}
            fam == FirstFamily(corpus[k])
        IN /\ Cardinality(ms) <= 1
           /\ \A i \in ms :
                /\ fam # 0
                /\ chapters[i].pattern_type = patterns[fam].pattern_type
                /\ chapters[i].original
                   = Matches(corpus[k], patterns[fam].cls,
                             patterns[fam].unit)[1]

\* C9: the marker list find_chapters returns is in line order: consecutive
\* markers have non-decreasing line numbers, each the number of a corpus
\* line.
C9_OrderedByLine ==
    ppc \notin {"idle", "scan"} =>
        /\ \A i \in 1..Len(chapters) : chapters[i].line \in 1..Len(corpus)
        /\ \A i \in 1..(Len(chapters) - 1) :
              chapters[i].line <= chapters[i + 1].line

C9_Witness ==
    /\ ppc = "found"
    /\ Len(chapters) >= 2
    /\ chapters[1].line < chapters[2].line
    /\ chapters[1].number > chapters[2].number

\* C10: in the written index each record starts on its marker's line, ends
\* one line before the next record starts (so startLine <= endLine), and the
\* last record ends at "end of file" (None).
C10_RecordSpans ==
    config # None =>
        /\ Len(Records) = Len(chapters)
        /\ ValueOf(config).total_chapters = Len(chapters)
        /\ \A i \in 1..Len(Records) :
              /\ Records[i].start_line = chapters[i].line
              /\ i < Len(Records) =>
                    /\ Records[i].end_line
                       = Some(Records[i + 1].start_line - 1)
                    /\ Records[i].start_line <= ValueOf(Records[i].end_line)
              /\ i = Len(Records) => Records[i].end_line = None

C10_Witness ==
    /\ config # None
    /\ Len(Records) = 2
    /\ Records[1].start_line < ValueOf(Records[1].end_line)
    /\ Records[2].start_line = ValueOf(Records[1].end_line) + 1
    /\ Records[2].end_line = None

\* a marker list that carries the numbers ns, one marker per line
MarkersNumbered(ns) ==
    [i \in 1..Len(ns) |->
        [line |-> i, original |-> <<"di">> \o Str(ns[i]) \o <<"hui">>,
         number |-> ns[i], pattern_type |-> "arabic+hui",
         line_content |-> <<"di">> \o Str(ns[i]) \o <<"hui">>]]

\* C11: missing_numbers is exactly the integers between the least and the
\* greatest marker number that no marker carries, in ascending order
\* (numbers 1,2,4,7 give 3,5,6); it is empty for zero or one marker.
C11_MissingNumbers ==
    /\ analyze_chapters(<<>>).missing_numbers = <<>>
    /\ analyze_chapters(MarkersNumbered(<<1, 2, 4, 7>>)).missing_numbers
       = <<3, 5, 6>>
    /\ stats # None =>
         LET m == ValueOf(stats).missing_numbers
             nums == {chapters[i].number : i \in 1..Len(chapters)}
         IN /\ \A n \in 0..101 :
                  (\E k \in 1..Len(m) : m[k] = n)
                  <=> /\ n \notin nums
                      /\ \E a \in nums : a < n
                      /\ \E b \in nums : n < b
            /\ \A k \in 1..Len(m) : m[k] \in 0..101
            /\ \A k \in 1..(Len(m) - 1) : m[k] < m[k + 1]
            /\ Len(chapters) <= 1 => m = <<>>

C11_Witness ==
    /\ stats # None
    /\ Len(chapters) = 2
    /\ ValueOf(stats).missing_numbers = <<2>>

\* C12: a duplicate group is reported for a number exactly when two or more
\* markers carry it, the group holds all of those markers, and the written
\* index has one record per marker, each with its own startLine.
C12_DuplicatesGrouped ==
    (stats # None /\ config # None) =>
        LET d == ValueOf(stats).duplicates
            Carriers(n) == {i \in 1..Len(chapters) : chapters[i].number = n}
        IN /\ \A n \in 0..101 :
                 n \in DOMAIN d <=> Cardinality(Carriers(n)) >= 2
           /\ \A n \in DOMAIN d :
                 /\ Len(d[n]) = Cardinality(Carriers(n))
                 /\ \A i \in Carriers(n) :
                       \E k \in 1..Len(d[n]) : d[n][k] = chapters[i]
           /\ Len(Records) = Len(chapters)
           /\ \A i \in 1..Len(Records) :
                 /\ Records[i].number = chapters[i].number
                 /\ Records[i].start_line = chapters[i].line
                 /\ \A j \in 1..Len(Records) :
                       i # j => Records[i].start_line # Records[j].start_line

C12_Witness ==
    /\ stats # None
    /\ config # None
    /\ Len(Records) = 2
    /\ Records[1].number = 2
    /\ Records[2].number = 2
    /\ 2 \in DOMAIN ValueOf(stats).duplicates
    /\ Len(ValueOf(stats).duplicates[2]) = 2

----------------------------------------------------------------------------
(* Claims about paragraph reflow, on the runs of process_chapter_sop.      *)

RECURSIVE SplitParagraphsFrom(_, _)

SplitParagraphsFrom(t, i) ==
    CHOOSE r \in
      {IF j = 0 THEN <<SubSeq(t, i, Len(t))>>
       ELSE <<SubSeq(t, i, j - 1)>> \o SplitParagraphsFrom(t, j + 2) :
         j \in {FirstPos({q \in i..Len(t) :
                             StartsWith(t, q, <<"\n", "\n">>)})}} : TRUE

\* the paragraphs of an output text: its pieces between blank lines
OutputParagraphs(text) ==
    CHOOSE r \in {SplitParagraphsFrom(t, 1) : t \in {text}} : TRUE

\* format_chapter_content_sop has returned
Formatted == rpc = "done" /\ formatted # None

\* C13: in the text format_chapter_content_sop returns, every paragraph but
\* the last is longer than PARAGRAPH_MIN_LENGTH characters.
C13_ParagraphsLong ==
    Formatted =>
        \A ps \in {OutputParagraphs(ValueOf(formatted))} :
            \A k \in 1..(Len(ps) - 1) : Len(ps[k]) > PARAGRAPH_MIN_LENGTH

\* an output of two paragraphs or more
C13_Witness ==
    /\ Formatted
    /\ Len(OutputParagraphs(ValueOf(formatted))) >= 2

\* the sentence of the stream at parts[i]: its text and its terminator
SentenceAt(i) == Strip(PartAt(parts, i) \o PartAt(parts, i + 1))

\* C14: an iteration of the accumulation loop that appends a sentence
\* closes the paragraph if and only if the paragraph's text, the sentence
\* included, is longer than 100 characters and the next sentence of the
\* stream, its terminator included, is longer than 20; otherwise the
\* sentence stays in the current paragraph; and what is left in the current
\* paragraph when the stream ends becomes the last paragraph.
C14_CloseRule ==
    [][ /\ (rpc = "accumulate" /\ rpc' = "accumulate"
            /\ Strip(PartAt(parts, partIdx)) # <<>>)
           => \E text \in {JoinWith(Append(current_para, SentenceAt(partIdx)),
                                    <<" ">>)} :
                IF Len(text) > 100 /\ Len(SentenceAt(partIdx + 2)) > 20
                THEN /\ paragraphs' = Append(paragraphs, text)
                     /\ current_para' = <<>>
                ELSE /\ paragraphs' = paragraphs
                     /\ current_para'
                        = Append(current_para, SentenceAt(partIdx))
        /\ (rpc = "accumulate" /\ rpc' = "done")
           => paragraphs'
              = IF current_para = <<>> THEN paragraphs
                ELSE Append(paragraphs, JoinWith(current_para, <<" ">>))
      ]_vars

\* a paragraph has been closed and a later sentence kept open
C14_Witness ==
    /\ rpc = "accumulate"
    /\ paragraphs # <<>>
    /\ current_para # <<>>

\* the stripped line carries a chapter marker of another number than num
OtherMarker(line, num) ==
    \E stripped \in {Strip(line)} :
        SearchMarker(stripped) # None /\ ~IsOwnMarker(stripped, num)

\* the first line with a marker of another number after processing has
\* started, or 0
TerminatorLine(lines, num) ==
    FirstPos({k \in 1..Len(lines) :
                 /\ OtherMarker(lines[k], num)
                 /\ FilterFirst(lines, num, k - 1).started})

\* C15: once processing has started, the first line with a marker of another
\* number ends it, forum keywords on the line or not: the output is the
\* output for the lines before that line.
C15_OtherMarkerTerminates ==
    Formatted =>
        \A lines \in {SplitLines(ValueOf(raw))} :
            \A k \in {TerminatorLine(lines, chapterNum)} :
                k # 0 =>
                    ValueOf(formatted)
                    = format_chapter_content_sop(
                          JoinWith(SubSeq(lines, 1, k - 1), <<"\n">>),
                          chapterNum)

\* lin dai yu chu ru rong guo fu, zhong ren jie jing.
SubtitledBody == SubSeq(SubtitledLine, 10, Len(SubtitledLine))

\* C16: the marker line  di 3 hui  jue dai feng hua  <body>  of chapter 3
\* gives the heading # di 3 zhang and the body alone, the subtitle dropped.
C16_SubtitleDropped ==
    (rpc = "done" /\ chapterNum = 3 /\ raw = Some(SubtitledLine))
        => resultFile
           = Some(<<"#", " ", "di", "3", "zhang", "\n", "\n">>
                  \o SubtitledBody)

\* C17: given the slicer's placeholder raw file of chapter n,
\* process_chapter_sop writes the placeholder document of chapter n.
C17_PlaceholderKept ==
    (rpc = "done" /\ raw = Some(placeholder_content(chapterNum)))
        => resultFile = Some(generate_placeholder(chapterNum))

----------------------------------------------------------------------------
(* Claims about the anthology.                                             *)

\* the files of the directory that hold a chapter with a text
ValidFiles ==
    {name \in DOMAIN chapterDir :
        chapterDir[name] \in {Document(NumberOfName(name), "prose"),
                              Document(NumberOfName(name), "front")}}

\* the files of the directory that hold the placeholder of their chapter
PlaceholderFiles ==
    {name \in DOMAIN chapterDir :
        chapterDir[name] = Document(NumberOfName(name), "placeholder")}

\* 98 valid chapters and 2 placeholders, and nothing else
Scenario98 ==
    /\ Cardinality(DOMAIN chapterDir) = 100
    /\ Cardinality(ValidFiles) = 98
    /\ Cardinality(PlaceholderFiles) = 2

----------------------------------------------------------------------------
(* Claims about the ledger.                                                *)

\* C19: init_progress with no ledger and an index that loads saves a ledger
\* with exactly the keys 1..100, where entry n is skipped if no index
\* record has number n and pending otherwise, with created_at and
\* updated_at unset; with a ledger present it leaves the ledger as it is.
C19_InitProgress ==
    [][(lpc = "start" /\ lpc' = "ready") =>
          IF ledger # None THEN ledger' = ledger
          ELSE indexFile # None =>
                 /\ ledger' # None
                 /\ DOMAIN ValueOf(ledger') = 1..100
                 /\ \A n \in 1..100 :
                       /\ ValueOf(ledger')[n].status \in {"pending", "skipped"}
                       /\ ValueOf(ledger')[n].status = "skipped"
                            <=> n \notin ValueOf(indexFile)
                       /\ ValueOf(ledger')[n].created_at = None
                       /\ ValueOf(ledger')[n].updated_at = None]_vars

C19_Witness ==
    /\ lpc = "ready"
    /\ indexFile = Some({2, 100, 101})
    /\ ledger # None
    /\ ValueOf(ledger)[1].status = "skipped"
    /\ ValueOf(ledger)[2].status = "pending"

\* the sum of the counters of the batch loop
CountSum == counts.success + counts.skip + counts.placeholder + counts.fail

\* C20: a batch run over start..end is never aborted by the failure of a
\* chapter, and when it is over every chapter of the range was attempted
\* and the counters add up to end - start + 1.
C20_BatchNeverAborts ==
    /\ lpc # "aborted"
    /\ lpc = "done" =>
          /\ attempted = batchStart..batchEnd
          /\ CountSum = batchEnd - batchStart + 1

----------------------------------------------------------------------------
(* Claims about extraction from records with bad spans.                    *)

\* the span of a record is non-positive, inverted, or starts past the end
\* of the corpus
BadSpan(chapter) ==
    \/ chapter.start_line <= 0
    \/ chapter.end_line # None
         /\ chapter.start_line > ValueOf(chapter.end_line)
    \/ chapter.start_line > Len(corpus)

\* C21: for a record whose span is non-positive, inverted or past the end
\* of the corpus, extract_chapter_content yields no content and
\* extract_all_chapters writes no file and reports the chapter, leaving the
\* files of the other records as they are.
C21_BadSpanNoFile ==
    [][(ppc = "extract" /\ recIdx' = recIdx + 1
        /\ BadSpan(ValueOf(config).chapters[recIdx]))
          => /\ extracted' = None
             /\ files' = files
             /\ failed' = Append(failed,
                                 ValueOf(config).chapters[recIdx].number)]_vars

----------------------------------------------------------------------------
(* Claims about blank lines in the cleaned text.                           *)

\* the text has n line feeds in a row from position q
LineFeedsAt(text, q, n) ==
    /\ q + n - 1 <= Len(text)
    /\ \A k \in q..(q + n - 1) : text[k] = "\n"

\* C22: the text clean_text writes has no run of more than 2 consecutive
\* blank lines, that is no 4 line feeds in a row, also directly after a
\* chapter marker.
C22_NoLongBlankRun ==
    cpc = "written" =>
       \A out \in {ValueOf(cleanOut)} :
          \A q \in 1..Len(out) : ~LineFeedsAt(out, q, 4)

----------------------------------------------------------------------------
(* Claims about sentence splitting.                                        *)

NotBlank(c) == c \notin Whitespace

\* the characters of a text that are not whitespace, in order
NonBlankChars(text) == SelectSeq(text, NotBlank)

\* C23: sentence splitting loses no text: the text
\* format_chapter_content_sop returns has the same non-whitespace
\* characters, in the same order, as the joined stream it split, every
\* terminator included.
C23_SplitKeepsText ==
    Formatted =>
        NonBlankChars(ValueOf(formatted)) = NonBlankChars(FullText(filtered))

----------------------------------------------------------------------------
(* Claims about the chapters the anthology leaves out.                     *)

\* the numbers of the chapters of the book
BookNumbers == {book[i].number : i \in 1..Len(book)}

\* C24: create_epub leaves a chapter document out if and only if it is a
\* placeholder or an empty stub: the placeholder of a missing chapter, the
\* stub of an empty chapter and a document with only its heading are left
\* out, and a chapter with prose is in the book whatever its words.
C24_SkipsOnlyStubs ==
    epc = "done" =>
       \A k \in 1..Len(chapter_files) :
          \E n \in {chapter_files[k][1]},
             doc \in {chapterDir[chapter_files[k][2]]} :
             /\ doc \in {Document(n, "placeholder"), Document(n, "stub"),
                          Document(n, "heading")}
                  => n \notin BookNumbers
             /\ doc \in {Document(n, "prose"), Document(n, "front"),
                          Document(n, "mention")}
                  => n \in BookNumbers

----------------------------------------------------------------------------
(* Claims about process_chapter invocations on the ledger.                 *)

\* the entry of chapter n in the ledger file
Entry(n) == ValueOf(ledger)[n]

\* the invocation of process p has saved an outcome for its chapter
SavedOutcome(p) == worker[p].pc = "done" /\ worker[p].saved # None

\* C25: when batch process_chapter invocations for different chapters are
\* serialized, no status update is lost: the entry an invocation saved as
\* its outcome stays in the ledger.  (When they interleave, a state with a
\* lost update is reachable: C25_LostUpdate.)
C25_SerializedKeepsUpdates ==
    ~overlapped =>
        \A p \in Procs :
            SavedOutcome(p)
               => Entry(worker[p].chapter_num) = ValueOf(worker[p].saved)

\* two invocations have interleaved, and the entry one of them saved as
\* completed or skipped is pending again
C25_LostUpdate ==
    /\ overlapped
    /\ \A p \in Procs : worker[p].pc = "done"
    /\ \E p \in Procs :
          /\ SavedOutcome(p)
          /\ ValueOf(worker[p].saved).status \in {"completed", "skipped"}
          /\ Entry(worker[p].chapter_num).status = "pending"

Statuses == {"pending", "processing", "completed", "error", "skipped"}

\* C26: in every state of a serialized sequence of process_chapter calls
\* on an initialised ledger, the ledger has exactly one entry for each
\* chapter 1..100 and every status is one of the five.
C26_LedgerShape ==
    /\ ledger # None
    /\ DOMAIN ValueOf(ledger) = 1..100
    /\ \A n \in 1..100 : Entry(n).status \in Statuses

\* calls for chapters with and without an entry have been made, and the
\* ledger holds a completed and a failed chapter
C26_Witness ==
    /\ worker[1].pc = "done"
    /\ worker[1].chapter_num = 101
    /\ Entry(1).status = "completed"
    /\ Entry(2).status = "error"

\* C27: a step of a batch process_chapter call for chapter k leaves the
\* entry of every other chapter as it is, and a call for a chapter whose
\* entry is completed returns True at once, the ledger and the output file
\* untouched.
C27_BatchFrame ==
    [][(worker[1].kind = "batch" /\ Active(1)) =>
          /\ DOMAIN ValueOf(ledger') = DOMAIN ValueOf(ledger)
          /\ \A n \in DOMAIN ValueOf(ledger) \ {worker[1].chapter_num} :
                ValueOf(ledger')[n] = Entry(n)
          /\ (/\ worker[1].pc = "called"
              /\ worker[1].chapter_num \in 1..100
              /\ Entry(worker[1].chapter_num).status = "completed")
                => /\ ledger' = ledger
                   /\ written' = written
                   /\ worker'[1].pc = "done"
                   /\ worker'[1].ret = "True"
                   /\ ~worker'[1].wrote]_vars

\* a batch call for a completed chapter has returned
C27_Witness ==
    /\ worker[1].kind = "batch"
    /\ worker[1].pc = "done"
    /\ worker[1].ret = "True"
    /\ ~worker[1].wrote
    /\ worker[1].chapter_num \in 1..100
    /\ Entry(worker[1].chapter_num).status = "completed"

\* the chapters whose status is pending
Pending == {n \in 1..100 : Entry(n).status = "pending"}

\* the chapters init_progress made pending
InitialPending == ValueOf(indexFile) \cap (1..100)

\* what holds of the chapter a 'next' command has selected and of the
\* number of such commands
NextSelection ==
    /\ worker[1].via_next =>
         /\ worker[1].ret = "all_done" => Pending = {}
         /\ worker[1].chapter_num # 0 =>
              /\ \A n \in 1..(worker[1].chapter_num - 1) :
                    Entry(n).status # "pending"
              /\ worker[1].pc \in {"marked", "done"} =>
                    Entry(worker[1].chapter_num).status
                       \in {"processing", "error", "completed"}
    /\ ~Active(1) =>
         Cardinality(Pending) + nextCount <= Cardinality(InitialPending)
    /\ nextCount <= 100

\* C28: the 'next' command selects the lowest pending chapter and moves it
\* to processing, error or completed; no step sets a status back to
\* pending; so every 'next' that selects a chapter has taken one chapter
\* out of the pending ones, at most 100 of them select a chapter, and with
\* no chapter pending 'next' reports that all is processed.
C28_NextCommand ==
    [][/\ NextSelection'
       /\ \A n \in 1..100 :
             Entry(n).status # "pending"
                => ValueOf(ledger')[n].status # "pending"
       /\ nextCount' = nextCount + 1 =>
            /\ worker'[1].chapter_num \in Pending
            /\ worker'[1].via_next
       /\ (~Active(1) /\ Pending = {} /\ worker'[1] # worker[1]
           /\ worker'[1].via_next)
             => worker'[1].ret = "all_done"]_vars

\* 100 'next' commands have each taken a chapter, and the next one reports
\* that all is processed
C28_Witness ==
    /\ nextCount = 100
    /\ worker[1].via_next
    /\ worker[1].ret = "all_done"
    /\ Pending = {}

====
